---------------------------- MODULE Spec2Model ----------------------------
(***************************************************************************)
(* A model of the mutual-fund feed ingestion pipeline:                     *)
(*   - the Dispatch Router           (main.py, get_table_name_from_subject)*)
(*   - the Idempotency Tracker and the Mail Harvester                      *)
(*                                   (email_dbf_download_handler.py)       *)
(*   - the top-level run             (main.py, main)                       *)
(*   - the record loaders            (the modules under processor/)        *)
(* Each part has its own specification over the shared variables; the      *)
(* variables of the other parts stay at their idle values.                 *)
(***************************************************************************)
EXTENDS Integers, Sequences, FiniteSets, TLC

VARIABLES
    \* ---- Dispatch Router (main.py) ----
    subject,        \* the subject handed to get_table_name_from_subject
    table_name,     \* its return value ("unset" before the call)
    route_pc,       \* "idle" | "call" | "done"
    \* ---- password resolution in process_dbf_download_links ----
    pw_msgs,        \* the messages of the search result, in order
    pw_idx,         \* number of messages handled so far
    pass_match,     \* the function's local pass_match: Unbound, None, or a token
    pw_out,         \* per handled message: its final_password, and whether skipped
    \* ---- Idempotency Tracker, Mail Harvester and the top-level run ----
    inbox,          \* today's archives (one per message), rescanned by every run
    disk,           \* the keys stored in processed_files.json
    disk_state,     \* "ok" | "read_fails" | "write_fails": what open() does
    processed_files,\* the run's in-memory set of processed keys
    run_pc,         \* "idle" | "harvest" | "main"
    h_idx,          \* archives handled by the harvester in this run
    all_files,      \* the Documents discovered in this run
    d_idx,          \* Documents handled by main in this run
    processing_summary, \* main's tally of this run: success and failures
    ever_marked,    \* history: keys mark_as_processed has returned for
    emitted_prev,   \* history: keys a Document was emitted for in an earlier run
    unloaded,       \* history: keys of this run's Documents skipped by the router,
                    \*          or whose load failed or raised
    rows_run,       \* history: keys of this run's Documents whose rows were committed
    mail,           \* the IMAP connection of the run: "closed", "up", "lost",
                    \* "logged_out", or the step that failed
    outcomes,       \* history: per message reached by the loop, "fetched" or "lost"
    attempted,      \* history: per pass of main's loop, the place of its Document
                    \*          in all_files and whether its rows were committed
    \* ---- Record Loaders ----
    loader,         \* the loader main dispatched to
    df,             \* the Document's raw rows, in source order
    has_constraint, \* whether the target table has the unique constraint
    db_table,       \* the committed rows of the target table
    table_before,   \* history: the table when the loader was called
    load_pc,        \* "idle" | "call" | "done"
    deduped_values_list, \* the cleaned rows submitted for commit
    duplicates,     \* the rows diverted to the duplicates file
    load_result,    \* the loader's counters
    constraint_found, \* what check_unique_constraint_exists reported
    load_return,    \* the value the loader returned to its caller
    summary_csv,    \* the lines the call appended to the day's summary.csv
    rows_committed, \* history: rows written by the call's committed statements
    insert_values,  \* the cleaned rows classified as new
    update_values,  \* the cleaned rows classified as existing
    \* ---- Database connections ----
    units,          \* the units of work of one document, in order
    u_idx,          \* units of work that are over
    conn_pc,        \* "idle" | "acquired" | "ok" | "raised": the current unit
    open_connections, \* the units whose connection is open
    \* ---- Archive downloads (download_zip_from_url) ----
    dl_urls,        \* the message's unique_urls: per URL, the responses its
                    \* server gives to the first, second, ... request
    dl_idx,         \* URLs the loop is done with
    dl_pc,          \* "idle" | "loop" | "requested" | "done"
    dl_attempts,    \* history: per URL reached, the requests sent for it
    dl_results,     \* per URL the loop is done with, what download_zip_from_url returned
    \* ---- clean_numeric of the loaders ----
    cn_module,      \* the module whose clean_numeric is called
    cn_val,         \* the cell's text
    cn_out,         \* the value returned
    cn_pc,          \* "idle" | "call" | "done"
    \* ---- mail attachments and their extract folders ----
    at_msgs,        \* today's messages with a .zip attachment, in order
    at_idx,         \* messages the run is done with
    at_pc,          \* "idle" | "loop" | "done"
    at_folders,     \* the files under cams/<today>: <<folder, file, the message
                    \* whose archive the file was extracted from>>
    at_keys,        \* processed_files, in memory and in processed_files.json
    at_files,        \* all_files of the run: the Documents emitted, each with the
                    \* message it was emitted for
    \* ---- process_cam_brokerage_dataframe and its file tracker ----
    bk_exists,      \* os.path.exists(source_file)
    bk_unique,      \* whether cam_brokerage_wbr77 has a unique constraint that
                    \* refuses a second copy of a row
    bk_len,         \* the rows of the file
    bk_copies,      \* per row of the file, its copies in cam_brokerage_wbr77
    bk_tracked,     \* file_processing_tracker holds the file's hash, COMPLETED
    bk_calls,       \* the calls made on the file so far
    bk_return,       \* what the last call returned (-1 before the first)
    \* ---- process_kfintech_brokerage_dataframe and its fallback ----
    kb_rows,        \* the rows of the file, in order: "ok" | "refused" (the
                    \* database raises on a statement that inserts the row)
    kb_start,       \* batch_start: rows of the batches the loop is done with
    kb_pc,          \* "idle" | "loop" | "done"
    kb_table,       \* the rows of the file committed to kfintech_brokerage
    kb_successful,  \* successful_rows
    kb_failed,      \* failed_rows
    kb_fallbacks,   \* batches that went through fallback_individual_inserts
    kb_return,       \* what the call returned (-1 before it returns)
    \* ---- two runs of process_dbf_download_links at the same time ----
    cc_inbox,       \* the DocumentKeys of today's messages, in order
    cc_disk,        \* the content of processed_files.json
    cc_pc,          \* per run: "start" | "check" | "read" | "done"
    cc_mem,         \* per run: its processed_files set
    cc_idx,         \* per run: the keys its loop is done with
    cc_emitted,     \* per run: the keys it appended a Document for
    cc_marked       \* per run: the keys it marked

routeVars == <<subject, table_name, route_pc>>
pwVars == <<pw_msgs, pw_idx, pass_match, pw_out>>
runVars == <<inbox, disk, disk_state, processed_files, run_pc, h_idx, all_files,
             d_idx, processing_summary, ever_marked, emitted_prev, unloaded, rows_run,
             mail, outcomes, attempted>>

loadVars == <<loader, df, has_constraint, db_table, table_before, load_pc,
              deduped_values_list, duplicates, load_result, constraint_found,
              load_return, summary_csv, rows_committed, insert_values, update_values>>

connVars == <<units, u_idx, conn_pc, open_connections>>

dlVars == <<dl_urls, dl_idx, dl_pc, dl_attempts, dl_results>>

cnVars == <<cn_module, cn_val, cn_out, cn_pc>>

atVars == <<at_msgs, at_idx, at_pc, at_folders, at_keys, at_files>>

bkVars == <<bk_exists, bk_unique, bk_len, bk_copies, bk_tracked, bk_calls, bk_return>>

kbVars == <<kb_rows, kb_start, kb_pc, kb_table, kb_successful, kb_failed, kb_fallbacks, kb_return>>

ccVars == <<cc_inbox, cc_disk, cc_pc, cc_mem, cc_idx, cc_emitted, cc_marked>>

\* the variables of the parts modelled after the connections
auxVars == <<dlVars, cnVars, atVars, bkVars, kbVars, ccVars>>

vars == <<routeVars, pwVars, runVars, loadVars, connVars, auxVars>>

None == "None"

(***************************************************************************)
(*                       Small helpers on sequences                        *)
(***************************************************************************)

RECURSIVE Flatten(_)
Flatten(ss) == IF ss = <<>> THEN <<>> ELSE Head(ss) \o Flatten(Tail(ss))

\* sub occurs in s as a contiguous run (Python's `sub in s` on strings)
Contains(sub, s) ==
    \E i \in 0..(Len(s) - Len(sub)) : SubSeq(s, i + 1, i + Len(sub)) = sub

\* all sequences over S of length at most n
SeqsUpTo(S, n) == UNION {[1..k -> S] : k \in 0..n}

(***************************************************************************)
(*                    Dispatch Router  (src/main.py)                       *)
(***************************************************************************)

\* SUBJECT_TABLE_MAP in its insertion order (dicts iterate in that order)
SUBJECT_TABLE_MAP ==
    << << <<"w","b","r","2","2">>,     "cam_aum_wbr22" >>,
       << <<"w","b","r","2","c">>,     "cam_inv_wbr2c" >>,
       << <<"w","b","r","4","9">>,     "cam_sip_wbr49" >>,
       << <<"w","b","r","5">>,         "cam_sip_wbr5" >>,
       << <<"w","b","r","9","c">>,     "cam_investor_kyc_status_wbr9c" >>,
       << <<"w","b","r","9">>,         "cam_investor_details_wbr9" >>,
       << <<"w","b","r","2">>,         "cam_investor_trxn_wbr2" >>,
       << <<"w","b","r","7","7">>,     "cam_brokerage_wbr77" >>,
       << <<"w","b","c","u","m">>,     "kfintech_client_aum" >>,
       << <<"w","b","t","r","n">>,     "kafintech_trxn_report" >>,
       << <<"w","b","m","s","t">>,     "kfintech_investor_master" >>,
       << <<"w","b","b","r","o","k">>, "kfintech_brokerage" >> >>

UpperLetters ==
    <<"A","B","C","D","E","F","G","H","I","J","K","L","M",
      "N","O","P","Q","R","S","T","U","V","W","X","Y","Z">>

LowerLetters ==
    <<"a","b","c","d","e","f","g","h","i","j","k","l","m",
      "n","o","p","q","r","s","t","u","v","w","x","y","z">>

\* str.lower() on one character
LowerChar(c) ==
    IF \E i \in DOMAIN UpperLetters : UpperLetters[i] = c
    THEN LowerLetters[CHOOSE i \in DOMAIN UpperLetters : UpperLetters[i] = c]
    ELSE c

\* str.upper() on one character
UpperChar(c) ==
    IF \E i \in DOMAIN LowerLetters : LowerLetters[i] = c
    THEN UpperLetters[CHOOSE i \in DOMAIN LowerLetters : LowerLetters[i] = c]
    ELSE c

\* str.lower()
Lower(s) == [i \in 1..Len(s) |-> LowerChar(s[i])]

Codes == {SUBJECT_TABLE_MAP[i][1] : i \in DOMAIN SUBJECT_TABLE_MAP}

\* the length of the longest configured code
MaxCodeLen == CHOOSE n \in {Len(c) : c \in Codes} : \A c \in Codes : Len(c) <= n

\* the items whose code has length n, in their original order
ItemsOfLen(items, n) ==
    LET Has(it) == Len(it[1]) = n IN SelectSeq(items, Has)

\* a stable sort of the items by ascending code length (a wrong sort key)
RECURSIVE AscFrom(_, _)
AscFrom(items, n) ==
    IF n > MaxCodeLen THEN <<>>
    ELSE ItemsOfLen(items, n) \o AscFrom(items, n + 1)

SortedCodesAscending == AscFrom(SUBJECT_TABLE_MAP, 0)

\* sorted(items, key=lambda x: -len(x[0])): stable, longest code first
RECURSIVE DescFrom(_, _)
DescFrom(items, n) ==
    IF n < 0 THEN <<>>
    ELSE ItemsOfLen(items, n) \o DescFrom(items, n - 1)

SortedCodes == DescFrom(SUBJECT_TABLE_MAP, MaxCodeLen)

\* get_table_name_from_subject: the first code of the sorted list that occurs
\* in the lower-cased subject decides; None when no code occurs
get_table_name_from_subject(subj) ==
    LET subject_lower == Lower(subj)
        Hit(it) == Contains(Lower(it[1]), subject_lower)
        hits == SelectSeq(SortedCodes, Hit)
    IN  IF hits = <<>> THEN None ELSE hits[1][2]

\* str.upper()
Upper(s) == [i \in 1..Len(s) |-> UpperChar(s[i])]

\* fragments subjects are built from, and the number of fragments in a subject
Frags ==
    { <<"w","b","r">>, <<"W","B","R","2">>, <<"w","b","r","9">>,
      <<"2">>, <<"c">>, <<"C">>, <<"5">>, <<" ">> }

MaxFrags == 4

Subjects == {Flatten(fs) : fs \in SeqsUpTo(Frags, MaxFrags)}

RouteIdle == subject = <<>> /\ table_name = "unset" /\ route_pc = "idle"

PwIdle ==
    /\ pw_msgs = <<>>
    /\ pw_idx = 0
    /\ pass_match = [bound |-> FALSE, match |-> [found |-> FALSE, group |-> <<>>]]
    /\ pw_out = <<>>

RunIdle ==
    /\ inbox = <<>>
    /\ disk = {}
    /\ disk_state = "ok"
    /\ processed_files = {}
    /\ run_pc = "idle"
    /\ h_idx = 0
    /\ all_files = <<>>
    /\ d_idx = 0
    /\ processing_summary = [success |-> 0, failures |-> 0, details |-> 0]
    /\ ever_marked = {}
    /\ emitted_prev = {}
    /\ unloaded = {}
    /\ rows_run = {}
    /\ mail = "closed"
    /\ outcomes = <<>>
    /\ attempted = <<>>

NoResult == [total_inserted |-> 0, total_updated |-> 0, failed_operations |-> 0]

\* Python values a loader returns: None, an int, or a dict with "status" and,
\* on success, "processed" (<<>> where the key is absent)
NotReturned == [type |-> "", status |-> "", processed |-> <<>>]
PyNone == [type |-> "NoneType", status |-> "", processed |-> <<>>]
PyInt(n) == [type |-> "int", status |-> "", processed |-> <<n>>]
PyDict(status, processed) == [type |-> "dict", status |-> status, processed |-> processed]

ConnIdle ==
    /\ units = <<>>
    /\ u_idx = 0
    /\ conn_pc = "idle"
    /\ open_connections = {}

DlIdle ==
    /\ dl_urls = <<>>
    /\ dl_idx = 0
    /\ dl_pc = "idle"
    /\ dl_attempts = <<>>
    /\ dl_results = <<>>

CnIdle ==
    /\ cn_module = "none"
    /\ cn_val = <<>>
    /\ cn_out = <<>>
    /\ cn_pc = "idle"

AtIdle ==
    /\ at_msgs = <<>>
    /\ at_idx = 0
    /\ at_pc = "idle"
    /\ at_folders = {}
    /\ at_keys = {}
    /\ at_files = {}

BkIdle ==
    /\ bk_exists = FALSE
    /\ bk_unique = FALSE
    /\ bk_len = 0
    /\ bk_copies = <<>>
    /\ bk_tracked = FALSE
    /\ bk_calls = 0
    /\ bk_return = -1

KbIdle ==
    /\ kb_rows = <<>>
    /\ kb_start = 0
    /\ kb_pc = "idle"
    /\ kb_table = {}
    /\ kb_successful = 0
    /\ kb_failed = 0
    /\ kb_fallbacks = 0
    /\ kb_return = -1

CcIdle ==
    /\ cc_inbox = <<>>
    /\ cc_disk = {}
    /\ cc_pc = <<>>
    /\ cc_mem = <<>>
    /\ cc_idx = <<>>
    /\ cc_emitted = <<>>
    /\ cc_marked = <<>>

AuxIdle == DlIdle /\ CnIdle /\ AtIdle /\ BkIdle /\ KbIdle /\ CcIdle

LoadIdle ==
    /\ loader = "none"
    /\ df = <<>>
    /\ has_constraint = TRUE
    /\ db_table = <<>>
    /\ table_before = <<>>
    /\ load_pc = "idle"
    /\ deduped_values_list = <<>>
    /\ duplicates = <<>>
    /\ load_result = NoResult
    /\ constraint_found = TRUE
    /\ load_return = NotReturned
    /\ summary_csv = <<>>
    /\ rows_committed = 0
    /\ insert_values = <<>>
    /\ update_values = <<>>

RouteInit ==
    /\ subject \in Subjects
    /\ table_name = "unset"
    /\ route_pc = "call"
    /\ PwIdle
    /\ RunIdle
    /\ LoadIdle
    /\ ConnIdle
    /\ AuxIdle

ResolveTarget ==
    /\ route_pc = "call"
    /\ table_name' = get_table_name_from_subject(subject)
    /\ route_pc' = "done"
    /\ UNCHANGED <<subject, pwVars, runVars, loadVars, connVars, auxVars>>

RouteNext == ResolveTarget

SpecRoute == RouteInit /\ [][RouteNext]_vars

TableOf(code) ==
    LET i == CHOOSE j \in DOMAIN SUBJECT_TABLE_MAP : SUBJECT_TABLE_MAP[j][1] = code
    IN  SUBJECT_TABLE_MAP[i][2]

ProperSubstring(c1, c2) == c1 # c2 /\ Contains(c1, c2)

WBR2C == <<"w","b","r","2","c">>

\* the codes tried before wbr2c: longer ones, and equally long ones listed earlier
AheadOfWbr2c == { <<"w","b","b","r","o","k">>, <<"w","b","r","2","2">> }

Digits == {"0","1","2","3","4","5","6","7","8","9"}

\* \w of the regex: letters, digits and the underscore
IsWordChar(c) ==
    \/ \E i \in DOMAIN UpperLetters : UpperLetters[i] = c \/ LowerLetters[i] = c
    \/ c \in Digits
    \/ c = "_"

\* the character class [A-Za-z0-9@!#\$%&\*\-_] of the regex
IsTokenChar(c) == IsWordChar(c) \/ c \in {"@", "!", "#", "$", "%", "&", "*", "-"}

NoMatch == [found |-> FALSE, group |-> <<>>]

\* the group of  pass\W*([A-Za-z0-9@!#\$%&\*\-_]+)  matched with "pass" at i, or
\* NoMatch: \W* is greedy and gives characters back until a token character follows
PassMatchAt(text, i) ==
    LET n  == Len(text)
        j0 == i + 4
        \* end of the run of non-word characters that follows "pass"
        e  == CHOOSE k \in j0..(n + 1) :
                  /\ \A m \in j0..(k - 1) : ~IsWordChar(text[m])
                  /\ (k = n + 1 \/ IsWordChar(text[k]))
        back == {x \in j0..n : x < e /\ IsTokenChar(text[x])}
        g  == IF e <= n THEN e
              ELSE IF back = {} THEN 0
              ELSE CHOOSE x \in back : \A y \in back : y <= x
        h  == CHOOSE k \in g..n :
                  /\ \A m \in g..k : IsTokenChar(text[m])
                  /\ (k = n \/ ~IsTokenChar(text[k + 1]))
    IN  IF g = 0 THEN NoMatch ELSE [found |-> TRUE, group |-> SubSeq(text, g, h)]

\* re.search(r'pass\W*([A-Za-z0-9@!#\$%&\*\-_]+)', plain_text, re.I): the
\* leftmost match (found, group 1), or NoMatch for None
re_search_pass(text) ==
    LET starts == {i \in 1..(Len(text) - 3) :
                      /\ Lower(SubSeq(text, i, i + 3)) = <<"p","a","s","s">>
                      /\ PassMatchAt(text, i).found}
    IN  IF starts = {} THEN NoMatch
        ELSE PassMatchAt(text, CHOOSE i \in starts : \A j \in starts : i <= j)

PW_CSVWH   == <<"1","2","1","2","1","2","1","2">>     \* b"12121212"
PW_DOMAIN  == <<"1","2","3","4","5","6">>             \* b"123456"
PW_DEFAULT == <<"1","2","3","4","5","6">>             \* b"123456"
PW_CLICK   == <<"M","u","t","u","a","l","@","1","1">> \* b"Mutual@11"

CSVWH == <<"C","S","V","W","H">>

\* the local variable pass_match: not yet assigned, or the last re.search result
Unbound == [bound |-> FALSE, match |-> NoMatch]
Bound(m) == [bound |-> TRUE, match |-> m]

\* a variant that consults the regex before the sender-domain marker
ResolveBaseTokenFirst(msg, pm) ==
    IF Upper(msg.file_type) = CSVWH
    THEN [password |-> PW_CSVWH, pass_match |-> pm]
    ELSE LET m == re_search_pass(msg.plain_text)
         IN  IF m.found THEN [password |-> m.group, pass_match |-> Bound(m)]
             ELSE IF msg.domain THEN [password |-> PW_DOMAIN, pass_match |-> Bound(m)]
             ELSE [password |-> PW_DEFAULT, pass_match |-> Bound(m)]

\* lines 174-187: the if / elif / else that sets final_password; pass_match is
\* assigned only in the else branch and otherwise keeps its earlier value pm
ResolveBase(msg, pm) ==
    IF Upper(msg.file_type) = CSVWH
    THEN [password |-> PW_CSVWH, pass_match |-> pm]
    ELSE IF msg.domain
    THEN [password |-> PW_DOMAIN, pass_match |-> pm]
    ELSE LET m == re_search_pass(msg.plain_text)
         IN  [password |-> IF m.found THEN m.group ELSE PW_DEFAULT,
              pass_match |-> Bound(m)]

\* lines 193-199: the click-here link; `if not pass_match` reads the local
\* variable, which raises NameError while it is unbound: the message is then
\* skipped by the handler of line 288
ResolvePassword(msg, pm) ==
    LET base == ResolveBase(msg, pm)
        out(pw, skip) ==
            [password |-> pw, pass_match |-> base.pass_match, skipped |-> skip]
    IN  IF msg.click # "link" THEN out(base.password, FALSE)
        ELSE IF ~base.pass_match.bound THEN out(base.password, TRUE)
        ELSE IF ~base.pass_match.match.found THEN out(PW_CLICK, FALSE)
        ELSE out(base.password, FALSE)

\* the "File Type" cell of the HTML table ("" when there is none)
FileTypes == { <<>>, <<"c","s","v","w","h">> }

\* the text/plain part
PlainTexts ==
    { <<>>,
      <<"p","a","s","s",":","A","B","C","1","2","3">>,
      <<"h","i"," ","P","a","s","s",".">> }

\* domain: "camsonline.com" in body.lower()
\* click:  "none" | "text" ("click here" occurs, no <a> with href) | "link"
Messages ==
    [file_type : FileTypes, domain : BOOLEAN, plain_text : PlainTexts,
     click : {"none", "text", "link"}]

MaxMsgs == 2

PwInit ==
    /\ pw_msgs \in SeqsUpTo(Messages, MaxMsgs)
    /\ pw_idx = 0
    /\ pass_match = Unbound
    /\ pw_out = <<>>
    /\ RouteIdle
    /\ RunIdle
    /\ LoadIdle
    /\ ConnIdle
    /\ AuxIdle

\* one iteration of `for eid in email_ids` as far as the password goes
ResolveMessage ==
    /\ pw_idx < Len(pw_msgs)
    /\ LET r == ResolvePassword(pw_msgs[pw_idx + 1], pass_match)
       IN  /\ pass_match' = r.pass_match
           /\ pw_out' = Append(pw_out, [skipped |-> r.skipped, password |-> r.password])
    /\ pw_idx' = pw_idx + 1
    /\ UNCHANGED <<pw_msgs, routeVars, runVars, loadVars, connVars, auxVars>>

PwNext == ResolveMessage

SpecPassword == PwInit /\ [][PwNext]_vars

TOKEN_ABC123 == <<"A","B","C","1","2","3">>

HasHint(msg) == Upper(msg.file_type) = CSVWH
HasToken(msg) == Contains(<<"p","a","s","s",":","A","B","C","1","2","3">>, msg.plain_text)

\* the password the stated first-match-wins order gives a message
FirstMatchPassword(msg) ==
    IF HasHint(msg) THEN PW_CSVWH
    ELSE IF msg.domain THEN PW_DOMAIN
    ELSE IF re_search_pass(msg.plain_text).found
         THEN re_search_pass(msg.plain_text).group
    ELSE IF msg.click = "link" THEN PW_CLICK
    ELSE PW_DEFAULT

\* C6: every message that gets a password gets that of the first rule that
\* applies, in the order hint, domain marker, pass token, click-here link,
\* default; so a message with the CSVWH hint or the domain marker never gets
\* Mutual@11.
C6_FirstMatchWins ==
    \A i \in 1..Len(pw_out) :
        ~pw_out[i].skipped =>
            /\ pw_out[i].password = FirstMatchPassword(pw_msgs[i])
            /\ (HasHint(pw_msgs[i]) \/ pw_msgs[i].domain)
                  => pw_out[i].password # PW_CLICK

\* C7 as stated: with no hint, a pass:ABC123 token and the domain marker, the
\* password is the token ABC123.
C7_TokenOverDomain ==
    \A i \in 1..Len(pw_out) :
        (~HasHint(pw_msgs[i]) /\ pw_msgs[i].domain /\ HasToken(pw_msgs[i]))
            => (~pw_out[i].skipped /\ pw_out[i].password = TOKEN_ABC123)

\* C7 amended: with no hint, a pass:ABC123 token and the domain marker, the
\* password is never the token: it is the domain password 123456, and only a
\* message that also carries a click-here link can end with Mutual@11 or be
\* skipped instead.
C7_DomainOverToken ==
    \A i \in 1..Len(pw_out) :
        (~HasHint(pw_msgs[i]) /\ pw_msgs[i].domain /\ HasToken(pw_msgs[i]))
            => /\ pw_out[i].password # TOKEN_ABC123
               /\ pw_out[i].password \in {PW_DOMAIN, PW_CLICK}
               /\ pw_msgs[i].click # "link"
                     => (~pw_out[i].skipped /\ pw_out[i].password = PW_DOMAIN)

\* C7 witness: such a message has been handled and got 123456
C7_Witness ==
    \E i \in 1..Len(pw_out) :
        /\ ~HasHint(pw_msgs[i]) /\ pw_msgs[i].domain /\ HasToken(pw_msgs[i])
        /\ ~pw_out[i].skipped
        /\ pw_out[i].password = PW_DOMAIN

(***************************************************************************)
(*  Idempotency Tracker  (src/processor/email_dbf_download_handler.py)     *)
(***************************************************************************)

DiskStates == {"ok", "read_fails", "write_fails"}

\* load_processed_files: the stored set, or the empty set when the file is
\* missing or reading it raises ("starting fresh")
load_processed_files(dsk, ds) == IF ds = "read_fails" THEN {} ELSE dsk

\* save_processed_files: overwrites the file with the given set; a failure to
\* write is logged and swallowed, the file keeps its content
save_processed_files(pf, dsk, ds) == IF ds = "write_fails" THEN dsk ELSE pf

is_already_processed(file_key, pf) == file_key \in pf

\* a variant that saves the set before adding the key to it
mark_as_processed_SaveFirst(file_key, pf, dsk, ds) ==
    [mem |-> pf \cup {file_key}, disk |-> save_processed_files(pf, dsk, ds)]

\* mark_as_processed: processed_files.add(file_key), then save
mark_as_processed(file_key, pf, dsk, ds) ==
    [mem  |-> pf \cup {file_key},
     disk |-> save_processed_files(pf \cup {file_key}, dsk, ds)]

(***************************************************************************)
(*  Mail Harvester  (process_dbf_download_links) and the run (main.py)     *)
(***************************************************************************)

\* file_key: f"{filename}_{subject}" for an attachment, f"{subject}_{url}" for a link
DocumentKey(u) ==
    IF u.kind = "attachment" THEN u.name \o <<"_">> \o u.subject
    ELSE u.subject \o <<"_">> \o u.name

\* the payload files of an extracted archive: "ok" is a .dbf/.csv that parses,
\* "bad" one whose parse raises, "other" any other extension; an archive that
\* cannot be downloaded or decrypted yields none
InnerFileLists == { <<"ok">>, <<"ok", "ok">>, <<"bad", "ok">>, <<"other">> }

HSubjects == { <<"W","B","R","2","C">>, <<"h","i">> }

Archives ==
    [subject : HSubjects, kind : {"attachment", "link"}, name : {<<"f">>},
     files : InnerFileLists]

MaxArchives == 1

\* lines 225-244 / 267-286: every payload file that parses marks the key and
\* appends a Document; a parse error is caught per file
RECURSIVE ReadFiles(_, _, _, _, _, _)
ReadFiles(files, u, pf, dsk, ds, docs) ==
    IF files = <<>> THEN [mem |-> pf, disk |-> dsk, docs |-> docs]
    ELSE IF Head(files) = "ok"
    THEN LET m == mark_as_processed(DocumentKey(u), pf, dsk, ds)
         IN  ReadFiles(Tail(files), u, m.mem, m.disk, ds,
                       Append(docs, [key |-> DocumentKey(u), subject |-> u.subject]))
    ELSE ReadFiles(Tail(files), u, pf, dsk, ds, docs)

RunInit ==
    /\ inbox \in SeqsUpTo(Archives, MaxArchives)
    /\ disk = {}
    /\ disk_state = "ok"
    /\ processed_files = {}
    /\ run_pc = "idle"
    /\ h_idx = 0
    /\ all_files = <<>>
    /\ d_idx = 0
    /\ processing_summary = [success |-> 0, failures |-> 0, details |-> 0]
    /\ ever_marked = {}
    /\ emitted_prev = {}
    /\ unloaded = {}
    /\ rows_run = {}
    /\ mail = "closed"
    /\ outcomes = <<>>
    /\ attempted = <<>>
    /\ RouteIdle
    /\ PwIdle
    /\ LoadIdle
    /\ ConnIdle
    /\ AuxIdle

\* the file system turns good or bad between runs
EnvDisk ==
    /\ run_pc = "idle"
    /\ disk_state' \in DiskStates \ {disk_state}
    /\ UNCHANGED <<inbox, disk, processed_files, run_pc, h_idx, all_files, d_idx,
                   processing_summary, ever_marked, emitted_prev, unloaded, rows_run>>
    /\ UNCHANGED <<mail, outcomes, attempted>>
    /\ UNCHANGED <<routeVars, pwVars, loadVars, connVars, auxVars>>

\* a run of main (main.py line 54) starts process_dbf_download_links, which
\* loads the tracker's set (lines 90-92)
StartRun ==
    /\ run_pc = "idle"
    /\ processing_summary' = [success |-> 0, failures |-> 0, details |-> 0]
    /\ processed_files' = load_processed_files(disk, disk_state)
    /\ all_files' = <<>>
    /\ h_idx' = 0
    /\ d_idx' = 0
    /\ unloaded' = {}
    /\ rows_run' = {}
    /\ attempted' = <<>>
    /\ run_pc' = "harvest"
    /\ UNCHANGED <<inbox, disk, disk_state, ever_marked, emitted_prev>>
    /\ UNCHANGED <<mail, outcomes>>
    /\ UNCHANGED <<routeVars, pwVars, loadVars, connVars, auxVars>>

\* one archive of the loop: the tracker is asked once, then the files are read
HarvestArchive ==
    /\ run_pc = "harvest"
    /\ h_idx < Len(inbox)
    /\ LET u == inbox[h_idx + 1]
           r == ReadFiles(u.files, u, processed_files, disk, disk_state, all_files)
       IN  IF is_already_processed(DocumentKey(u), processed_files)
           THEN UNCHANGED <<processed_files, disk, all_files, ever_marked>>
           ELSE /\ processed_files' = r.mem
                /\ disk' = r.disk
                /\ all_files' = r.docs
                /\ ever_marked' = ever_marked \cup (r.mem \ processed_files)
    /\ h_idx' = h_idx + 1
    /\ UNCHANGED <<inbox, disk_state, run_pc, d_idx, processing_summary,
                   emitted_prev, unloaded, rows_run>>
    /\ UNCHANGED <<mail, outcomes, attempted>>
    /\ UNCHANGED <<routeVars, pwVars, loadVars, connVars, auxVars>>

\* process_dbf_download_links returns all_files to main: lines 297-298
ReturnFiles ==
    /\ run_pc = "harvest"
    /\ h_idx = Len(inbox)
    /\ run_pc' = "main"
    /\ UNCHANGED <<inbox, disk, disk_state, processed_files, h_idx, all_files,
                   d_idx, processing_summary, ever_marked, emitted_prev, unloaded,
                   rows_run>>
    /\ UNCHANGED <<mail, outcomes, attempted>>
    /\ UNCHANGED <<routeVars, pwVars, loadVars, connVars, auxVars>>

\* a loop that an exception in one Document ends
NextDocumentAbortOnRaise(i, n, result) == IF result = "raised" THEN n ELSE i + 1

\* for dbf_info in dbf_data, with the try inside the loop body: whatever the
\* pass did, the next Document follows
NextDocument(i, n, result) == i + 1

\* one pass of main's loop over the Documents: the tally counts a loader that
\* returned as a success and one that raised as a failure, a skip is not counted
MainStep(result) ==
    /\ d_idx' = NextDocument(d_idx, Len(all_files), result)
    /\ attempted' = Append(attempted, [doc |-> d_idx + 1, committed |-> result = "ok"])
    /\ processing_summary' =
          IF result \in {"ok", "failed"}
          THEN [processing_summary EXCEPT !.success = @ + 1, !.details = @ + 1]
          ELSE IF result = "raised"
          THEN [processing_summary EXCEPT !.failures = @ + 1, !.details = @ + 1]
          ELSE processing_summary
    /\ IF result = "ok"
       THEN rows_run' = rows_run \cup {all_files[d_idx + 1].key} /\ UNCHANGED unloaded
       ELSE unloaded' = unloaded \cup {all_files[d_idx + 1].key} /\ UNCHANGED rows_run
    /\ UNCHANGED <<inbox, disk, disk_state, processed_files, run_pc, h_idx,
                   all_files, ever_marked, emitted_prev>>
    /\ UNCHANGED <<mail, outcomes>>
    /\ UNCHANGED <<routeVars, pwVars, loadVars, connVars, auxVars>>

\* main.py lines 100-103: no code in the subject, the Document is skipped
MainSkip ==
    /\ run_pc = "main"
    /\ d_idx < Len(all_files)
    /\ get_table_name_from_subject(all_files[d_idx + 1].subject) = None
    /\ MainStep("skipped")

\* main.py lines 108-138: the loader commits the rows and returns
MainLoadOk ==
    /\ run_pc = "main"
    /\ d_idx < Len(all_files)
    /\ get_table_name_from_subject(all_files[d_idx + 1].subject) # None
    /\ MainStep("ok")

\* the loader catches a database error itself, rolls back and returns
MainLoadFailed ==
    /\ run_pc = "main"
    /\ d_idx < Len(all_files)
    /\ get_table_name_from_subject(all_files[d_idx + 1].subject) # None
    /\ MainStep("failed")

\* main.py lines 140-147: the loader raises, main records the failure
MainLoadRaised ==
    /\ run_pc = "main"
    /\ d_idx < Len(all_files)
    /\ get_table_name_from_subject(all_files[d_idx + 1].subject) # None
    /\ MainStep("raised")

\* main.py line 168: the job is over
EndRun ==
    /\ run_pc = "main"
    /\ d_idx = Len(all_files)
    /\ run_pc' = "idle"
    /\ emitted_prev' = emitted_prev \cup {all_files[i].key : i \in DOMAIN all_files}
    /\ UNCHANGED <<inbox, disk, disk_state, processed_files, h_idx, all_files,
                   d_idx, processing_summary, ever_marked, unloaded, rows_run>>
    /\ UNCHANGED <<mail, outcomes, attempted>>
    /\ UNCHANGED <<routeVars, pwVars, loadVars, connVars, auxVars>>

RunNext ==
    \/ EnvDisk
    \/ StartRun
    \/ HarvestArchive
    \/ ReturnFiles
    \/ MainSkip
    \/ MainLoadOk
    \/ MainLoadFailed
    \/ MainLoadRaised
    \/ EndRun

SpecRun == RunInit /\ [][RunNext]_vars

InboxKeys == {DocumentKey(inbox[i]) : i \in DOMAIN inbox}
RunKeys == {all_files[i].key : i \in DOMAIN all_files}

\* C2: once a run has emitted a Document for a key, no later run emits a
\* Document for that key (the tracker reports it processed) and main commits
\* no further rows for it.
C2_IdempotentDocument ==
    run_pc # "idle" =>
        /\ RunKeys \cap emitted_prev = {}
        /\ rows_run \cap emitted_prev = {}

\* C3: a key is marked only after its Document's rows were committed: a
\* Document of this run is marked only if its rows are committed, and one the
\* router skipped or whose load failed or raised is not marked, neither in
\* memory nor in the file.
C3_MarkAfterCommit ==
    /\ \A k \in RunKeys : k \in processed_files => k \in rows_run
    /\ unloaded \cap (processed_files \cup disk) = {}

\* C4: is_already_processed is false for a key never marked; after
\* mark_as_processed(k) it is true for k; and marking k a second time leaves
\* the in-memory set and the stored set as the first call left them, whatever
\* the tracker's state and whether or not the file can be written.
C4_TrackerContract ==
    /\ \A k \in InboxKeys \ ever_marked : ~is_already_processed(k, processed_files)
    /\ \A k \in InboxKeys : \A ds \in DiskStates :
          LET once  == mark_as_processed(k, processed_files, disk, ds)
              twice == mark_as_processed(k, once.mem, once.disk, ds)
          IN  /\ is_already_processed(k, once.mem)
              /\ twice = once

\* C4 witness: the harvester has marked one key twice (two payload files of one
\* archive) and the key is in the set and in the file
C4_Witness ==
    \E i, j \in DOMAIN all_files :
        /\ i # j
        /\ all_files[i].key = all_files[j].key
        /\ is_already_processed(all_files[i].key, processed_files)
        /\ all_files[i].key \in disk

\* C5: a key mark_as_processed has returned for is reported as processed in
\* every later run, whatever read or write failures occurred.
C5_KeysNeverLost ==
    run_pc # "idle" => \A k \in ever_marked : is_already_processed(k, processed_files)


(***************************************************************************)
(*  Cleaning helpers of the loaders  (clean_text, clean_numeric,           *)
(*  clean_date; src/processor/process_dbf.py and its siblings)             *)
(*  A cleaned value is a tuple; None is the empty tuple.                   *)
(***************************************************************************)

NULL == <<>>

RECURSIVE LStrip(_)
LStrip(s) == IF s # <<>> /\ Head(s) = " " THEN LStrip(Tail(s)) ELSE s

RECURSIVE RStrip(_)
RStrip(s) == IF s # <<>> /\ s[Len(s)] = " " THEN RStrip(SubSeq(s, 1, Len(s) - 1)) ELSE s

\* str.strip()
Strip(s) == RStrip(LStrip(s))

Remove(s, ch) == SelectSeq(s, LAMBDA c : c # ch)

AllDigits(s) == \A i \in DOMAIN s : s[i] \in Digits

DigitValue(c) == CHOOSE n \in 0..9 : <<"0","1","2","3","4","5","6","7","8","9">>[n + 1] = c

\* int() of a run of digits
RECURSIVE ParseInt(_)
ParseInt(s) ==
    IF s = <<>> THEN 0
    ELSE ParseInt(SubSeq(s, 1, Len(s) - 1)) * 10 + DigitValue(s[Len(s)])

RECURSIVE TrimZeros(_)
TrimZeros(s) ==
    IF s # <<>> /\ s[Len(s)] = "0" THEN TrimZeros(SubSeq(s, 1, Len(s) - 1)) ELSE s

\* the parts of s between the occurrences of ch: str.split(ch)
RECURSIVE Split(_, _)
Split(s, ch) ==
    IF \A i \in DOMAIN s : s[i] # ch THEN <<s>>
    ELSE LET i == CHOOSE k \in DOMAIN s : s[k] = ch /\ \A j \in 1..(k - 1) : s[j] # ch
         IN  <<SubSeq(s, 1, i - 1)>> \o Split(SubSeq(s, i + 1, Len(s)), ch)

\* clean_text: the stripped text, None when nothing is left
clean_text(val) == IF Strip(val) = <<>> THEN NULL ELSE Strip(val)

\* float() of an unsigned decimal text: <<integer part, fraction digits>>, so
\* that "7" and "7.0" are the same number; None when it is no number
ParseFloat(s) ==
    LET parts == Split(s, ".")
    IN  IF Len(parts) = 1 /\ s # <<>> /\ AllDigits(s)
        THEN <<ParseInt(s), <<>>>>
        ELSE IF /\ Len(parts) = 2
                /\ AllDigits(parts[1]) /\ AllDigits(parts[2])
                /\ parts[1] \o parts[2] # <<>>
        THEN <<ParseInt(parts[1]), TrimZeros(parts[2])>>
        ELSE NULL

\* clean_numeric: None for a blank, else float(str(val).replace(',', '').strip()),
\* None when float raises
clean_numeric(val) ==
    IF Strip(val) = <<>> THEN NULL ELSE ParseFloat(Strip(Remove(val, ",")))

\* pd.to_datetime(val, errors='coerce') on dash-separated numeric dates:
\* YYYY-MM-DD as written, NN-NN-YYYY month first (day first when the first
\* number is no month), NaT (None) for anything else
to_datetime(val) ==
    LET parts == Split(Strip(val), "-")
        n(i)  == ParseInt(parts[i])
        date(y, m, d) == IF m \in 1..12 /\ d \in 1..31 THEN <<y, m, d>> ELSE NULL
    IN  IF Len(parts) # 3 \/ \E i \in 1..3 : parts[i] = <<>> \/ ~AllDigits(parts[i])
        THEN NULL
        ELSE IF Len(parts[1]) = 4 THEN date(n(1), n(2), n(3))
        ELSE IF Len(parts[3]) = 4
        THEN IF n(1) \in 1..12 THEN date(n(3), n(1), n(2)) ELSE date(n(3), n(2), n(1))
        ELSE NULL

\* clean_date of process_dbf.py, process_sip.py, process_kyc_status.py,
\* process_investor_details.py and kafintech_aum.py
clean_date(val) == IF Strip(val) = <<>> THEN NULL ELSE to_datetime(val)

\* clean_date of process_sip_expire.py: a text with a dash is split as
\* day-month-year and rewritten year-month-day before it is parsed; a split
\* that does not give three parts raises, which gives None
sip_expire_clean_date(val) ==
    IF Strip(val) = <<>> THEN NULL
    ELSE IF \E i \in DOMAIN val : val[i] = "-"
    THEN LET parts == Split(val, "-")
         IN  IF Len(parts) # 3 THEN NULL
             ELSE LET day   == parts[1]
                      month == parts[2]
                      yr    == parts[3]
                      year  == IF Len(yr) # 2 THEN yr
                               ELSE IF ParseInt(yr) <= 50 THEN <<"2","0">> \o yr
                               ELSE <<"1","9">> \o yr
                  IN  IF Len(yr) = 2 /\ ~AllDigits(yr) THEN NULL
                      ELSE to_datetime(year \o <<"-">> \o month \o <<"-">> \o day)
    ELSE to_datetime(val)

(***************************************************************************)
(*  Record Loaders  (src/processor)                                        *)
(*  A raw row carries the columns each loader reads:                       *)
(*    folio : folio_no / foliochk / acno / folio / unqno / scheme_code     *)
(*    ref   : trxnno / auto_trno / ref_no / amc_code / product / scheme /  *)
(*            brok_dlr_c / td_trno / plan_name                             *)
(*    sch   : sch_name / scheme_nam / plan_type / invname                  *)
(*    date  : traddate / from_date / to_date / product_co / rep_date /     *)
(*            todate / asset_date / td_trdt                                *)
(*    value : amount / auto_amoun / inv_name / balunits / units / td_amt / *)
(*            fund_code                                                    *)
(*    valid : whether the remaining columns fit the table's column         *)
(*            constraints (type, length, NOT NULL)                         *)
(*  and a cleaned row the cleaned columns among them, in the order of      *)
(*  cleaned_row, followed by the valid flag.                               *)
(***************************************************************************)

DedupLoaders ==
    {"process_cam_inv_dataframe", "process_sip_wbr49_dataframe",
     "process_sip_expire_dataframe", "process_kyc_status_dataframe",
     "process_investor_details_dataframe", "process_kfintech_aum_dataframe"}

\* the key of the seen_keys loop
SeenKey(l, row) ==
    CASE l = "process_cam_inv_dataframe" ->
            <<clean_text(row.folio), clean_text(row.ref), clean_date(row.date)>>
      [] l = "process_sip_wbr49_dataframe" ->
            <<clean_text(row.folio), clean_numeric(row.ref), clean_date(row.date)>>
      [] l = "process_sip_expire_dataframe" ->
            <<clean_text(row.folio), clean_text(row.ref), sip_expire_clean_date(row.date)>>
      [] l = "process_kyc_status_dataframe" ->
            <<clean_text(row.folio), clean_text(row.ref), clean_text(row.date)>>
      [] l = "process_investor_details_dataframe" ->
            <<clean_text(row.folio), clean_text(row.ref), clean_text(row.sch),
              clean_date(row.date)>>
      [] l = "process_kfintech_aum_dataframe" ->
            <<clean_text(row.folio), clean_text(row.ref), clean_date(row.date)>>

\* cleaned_row
CleanedRow(l, row) ==
    CASE l = "process_cam_inv_dataframe" ->      \* folio_no, trxnno, traddate, amount
            <<clean_text(row.folio), clean_text(row.ref), clean_date(row.date),
              clean_numeric(row.value), row.valid>>
      [] l = "process_sip_wbr49_dataframe" ->    \* folio_no, auto_trno, auto_amoun, from_date
            <<clean_text(row.folio), clean_numeric(row.ref), clean_numeric(row.value),
              clean_date(row.date), row.valid>>
      [] l = "process_sip_expire_dataframe" ->   \* folio_no, ref_no, to_date, amount
            <<clean_text(row.folio), clean_text(row.ref), sip_expire_clean_date(row.date),
              clean_numeric(row.value), row.valid>>
      [] l = "process_kyc_status_dataframe" ->   \* amc_code, product_co, foliochk, inv_name
            <<clean_text(row.ref), clean_text(row.date), clean_text(row.folio),
              clean_text(row.value), row.valid>>
      [] l = "process_investor_details_dataframe" ->
                                                 \* foliochk, inv_name, product, sch_name, rep_date
            <<clean_text(row.folio), clean_text(row.value), clean_text(row.ref),
              clean_text(row.sch), clean_date(row.date), row.valid>>
      [] l = "process_kfintech_aum_dataframe" -> \* acno, scheme, balunits, todate
            <<clean_text(row.folio), clean_text(row.ref), clean_numeric(row.value),
              clean_date(row.date), row.valid>>
      [] l = "process_aum_dataframe" ->
                                     \* brok_dlr_c, asset_date, folio, scheme_nam, units
            <<clean_text(row.ref), clean_date(row.date), clean_text(row.folio),
              clean_text(row.sch), clean_numeric(row.value), row.valid>>
      [] l = "process_kfintech_trxn_dataframe" ->
                                     \* td_trno, invname, td_trdt, td_amt, unqno
            <<clean_text(row.ref), clean_text(row.sch), clean_date(row.date),
              clean_numeric(row.value), clean_text(row.folio), row.valid>>
      [] l = "insert_dataframe" ->   \* scheme_code, fund_code, plan_name, plan_type
            <<clean_text(row.folio), clean_text(row.value), clean_text(row.ref),
              clean_text(row.sch), row.valid>>

\* the columns of the BusinessKey, as positions of the cleaned row: those of
\* ON CONFLICT (...), which are also those of the "final dedup" key
\* (row[1], row[6], row[11]), (row[2], row[5], row[7]), (row[1], row[2], row[13]),
\* (row[2], row[3], row[35]); for process_aum_dataframe (brok_dlr_c, folio,
\* scheme_nam, asset_date), for process_kfintech_trxn_dataframe unqno and for
\* insert_dataframe (scheme_code, plan_name, plan_type)
KeyColumns(l) ==
    CASE l = "process_cam_inv_dataframe" -> <<1, 2, 3>>
      [] l = "process_sip_wbr49_dataframe" -> <<1, 2, 4>>
      [] l = "process_sip_expire_dataframe" -> <<1, 2, 3>>
      [] l = "process_kyc_status_dataframe" -> <<3, 1, 2>>
      [] l = "process_investor_details_dataframe" -> <<1, 3, 4, 5>>
      [] l = "process_kfintech_aum_dataframe" -> <<1, 2, 4>>
      [] l = "process_aum_dataframe" -> <<1, 3, 4, 2>>
      [] l = "process_kfintech_trxn_dataframe" -> <<5>>
      [] l = "insert_dataframe" -> <<1, 3, 4>>

\* the columns of DO UPDATE SET / UPDATE ... SET
UpdateColumns(l) ==
    CASE l = "process_cam_inv_dataframe" -> {4}
      [] l = "process_sip_wbr49_dataframe" -> {3}
      [] l = "process_sip_expire_dataframe" -> {4}
      [] l = "process_kyc_status_dataframe" -> {4}
      [] l = "process_investor_details_dataframe" -> {2}
      [] l = "process_kfintech_aum_dataframe" -> {3}
      [] l = "process_aum_dataframe" -> {5}
      [] l = "process_kfintech_trxn_dataframe" -> {1, 2, 3, 4}
      [] l = "insert_dataframe" -> {2}

\* the columns process_kfintech_trxn_dataframe compares with the stored row:
\* existing['td_trno'], existing['td_trdt'], existing['td_amt'] (lines 116-125)
TrackedColumns == {1, 3, 4}

RowKey(l, r) == [i \in DOMAIN KeyColumns(l) |-> r[KeyColumns(l)[i]]]

HasNull(k) == \E i \in DOMAIN k : k[i] = NULL

Valid(r) == r[Len(r)]

\* kyc_status and investor_details have no "final dedup"
HasFinalDedup(l) ==
    l \notin {"process_kyc_status_dataframe", "process_investor_details_dataframe"}

\* the seen_keys loop: a row whose key was seen goes to duplicates, any other
\* row's cleaned row to values_list
RECURSIVE SeenLoop(_, _, _, _, _, _)
SeenLoop(keys, cleaned, raw, seen_keys, values_list, dups) ==
    IF keys = <<>> THEN [values_list |-> values_list, duplicates |-> dups]
    ELSE IF Head(keys) \in seen_keys
    THEN SeenLoop(Tail(keys), Tail(cleaned), Tail(raw), seen_keys, values_list,
                  Append(dups, Head(raw)))
    ELSE SeenLoop(Tail(keys), Tail(cleaned), Tail(raw), seen_keys \cup {Head(keys)},
                  Append(values_list, Head(cleaned)), dups)

\* a loop that keeps the last row of a key and diverts the earlier ones
RECURSIVE LastLoop(_, _, _, _, _)
LastLoop(keys, cleaned, raw, values_list, dups) ==
    IF keys = <<>> THEN [values_list |-> values_list, duplicates |-> dups]
    ELSE IF \E j \in DOMAIN Tail(keys) : Tail(keys)[j] = Head(keys)
    THEN LastLoop(Tail(keys), Tail(cleaned), Tail(raw), values_list,
                  Append(dups, Head(raw)))
    ELSE LastLoop(Tail(keys), Tail(cleaned), Tail(raw),
                  Append(values_list, Head(cleaned)), dups)

DeduplicateLastWins(l, rows) ==
    LastLoop([i \in DOMAIN rows |-> SeenKey(l, rows[i])],
             [i \in DOMAIN rows |-> CleanedRow(l, rows[i])], rows, <<>>, <<>>)

\* "Clean & deduplicate"
Deduplicate(l, rows) ==
    SeenLoop([i \in DOMAIN rows |-> SeenKey(l, rows[i])],
             [i \in DOMAIN rows |-> CleanedRow(l, rows[i])], rows, {}, <<>>, <<>>)

\* "Final dedup": unique_map = {key: row for row in values_list}, then
\* list(unique_map.values()): a key keeps the place of its first row and the
\* value of its last
RECURSIVE DictValues(_, _, _)
DictValues(l, values_list, i) ==
    IF i > Len(values_list) THEN <<>>
    ELSE LET k    == RowKey(l, values_list[i])
             same == {j \in DOMAIN values_list : RowKey(l, values_list[j]) = k}
             last == CHOOSE j \in same : \A j2 \in same : j2 <= j
         IN  IF \E j \in same : j < i
             THEN DictValues(l, values_list, i + 1)
             ELSE <<values_list[last]>> \o DictValues(l, values_list, i + 1)

FinalDedup(l, values_list) ==
    IF HasFinalDedup(l) THEN DictValues(l, values_list, 1) ELSE values_list

\* 500 in the source; kept small here so that a document spans several batches
BATCH_SIZE == 2

\* [lst[i:i+BATCH_SIZE] for i in range(0, len(lst), BATCH_SIZE)]
RECURSIVE Batches(_)
Batches(lst) ==
    IF lst = <<>> THEN <<>>
    ELSE IF Len(lst) <= BATCH_SIZE THEN <<lst>>
    ELSE <<SubSeq(lst, 1, BATCH_SIZE)>> \o Batches(SubSeq(lst, BATCH_SIZE + 1, Len(lst)))

(***************************************************************************)
(*  The database, as the loaders' statements see it.  A table is the       *)
(*  sequence of its committed rows; uniq tells whether it has the unique   *)
(*  constraint on the BusinessKey columns.                                 *)
(***************************************************************************)

KeyInTable(l, tbl, k) == \E i \in DOMAIN tbl : RowKey(l, tbl[i]) = k

\* a plain INSERT of r is rejected: a column constraint, or the unique
\* constraint (a key with a NULL part never collides)
Rejected(l, tbl, r, uniq) ==
    \/ ~Valid(r)
    \/ uniq /\ ~HasNull(RowKey(l, r)) /\ KeyInTable(l, tbl, RowKey(l, r))

\* execute_values(cursor, "INSERT ... VALUES %s", batch): all rows or an error
RECURSIVE InsertAll(_, _, _, _)
InsertAll(l, tbl, batch, uniq) ==
    IF batch = <<>> THEN [ok |-> TRUE, table |-> tbl]
    ELSE IF Rejected(l, tbl, Head(batch), uniq) THEN [ok |-> FALSE, table |-> tbl]
    ELSE InsertAll(l, Append(tbl, Head(batch)), Tail(batch), uniq)

\* UPDATE ... SET ... WHERE key = r's key: every stored row with the key
UpdateRows(l, tbl, r) ==
    [i \in DOMAIN tbl |->
        IF RowKey(l, tbl[i]) = RowKey(l, r) /\ ~HasNull(RowKey(l, r))
        THEN [c \in DOMAIN tbl[i] |-> IF c \in UpdateColumns(l) THEN r[c] ELSE tbl[i][c]]
        ELSE tbl[i]]

\* one row of INSERT ... ON CONFLICT (key) DO UPDATE SET ...
UpsertRow(l, tbl, r) ==
    IF ~HasNull(RowKey(l, r)) /\ KeyInTable(l, tbl, RowKey(l, r))
    THEN UpdateRows(l, tbl, r)
    ELSE Append(tbl, r)

RECURSIVE UpsertRows(_, _, _)
UpsertRows(l, tbl, batch) ==
    IF batch = <<>> THEN tbl ELSE UpsertRows(l, UpsertRow(l, tbl, Head(batch)), Tail(batch))

\* execute_values(cursor, "INSERT ... ON CONFLICT ... DO UPDATE", batch): an
\* error when the table lacks the constraint ON CONFLICT names, when a row
\* breaks a column constraint, or when two rows of the statement have one key
UpsertAll(l, tbl, batch, uniq) ==
    IF \/ ~uniq
       \/ \E i \in DOMAIN batch : ~Valid(batch[i])
       \/ \E i, j \in DOMAIN batch :
             i < j /\ RowKey(l, batch[i]) = RowKey(l, batch[j]) /\ ~HasNull(RowKey(l, batch[i]))
    THEN [ok |-> FALSE, table |-> tbl]
    ELSE [ok |-> TRUE, table |-> UpsertRows(l, tbl, batch)]

\* the rows of a batch whose plain INSERT hit "duplicate key", one
\* cursor.execute each on the same cursor: the failed statement has aborted the
\* transaction, so every one of them is refused, none is counted, and the
\* conn.commit() that follows ends the transaction with nothing in it
InsertSingleRows(st, batch) == st

\* one pass of the commit loop of process_sip_expire_dataframe when
\* has_constraint is False: a "duplicate key" error is answered row by row,
\* any other error is raised again; total_inserted grows only per single row
PlainInsertBatch(l, st, batch, uniq) ==
    LET r == InsertAll(l, st.table, batch, uniq)
    IN  IF r.ok THEN [st EXCEPT !.table = r.table, !.committed = @ + Len(batch)]
        ELSE IF \A i \in DOMAIN batch : Valid(batch[i])   \* only the key collides
        THEN InsertSingleRows(st, batch)
        ELSE [st EXCEPT !.ok = FALSE]

\* one pass of the commit loop: execute_values, commit, count the batch; an
\* error leaves the loop with the batch rolled back
ExecuteBatch(l, st, batch, uniq, found) ==
    IF l = "process_sip_expire_dataframe" /\ ~found
    THEN PlainInsertBatch(l, st, batch, uniq)
    ELSE LET r == UpsertAll(l, st.table, batch, uniq)
         IN  IF r.ok
             THEN [st EXCEPT !.table = r.table, !.total_inserted = @ + Len(batch),
                             !.committed = @ + Len(batch)]
             ELSE [st EXCEPT !.ok = FALSE]

\* a commit loop that stops after its first batch
CommitFirstBatchOnly(l, st, batches, uniq, found) ==
    IF batches = <<>> THEN st ELSE ExecuteBatch(l, st, Head(batches), uniq, found)

\* the commit loop of the seen-key loaders: the first error ends it, and the
\* batches committed before stay
RECURSIVE CommitBatches(_, _, _, _, _)
CommitBatches(l, st, batches, uniq, found) ==
    IF batches = <<>> \/ ~st.ok THEN st
    ELSE CommitBatches(l, ExecuteBatch(l, st, Head(batches), uniq, found),
                       Tail(batches), uniq, found)

\* the exit of a call: "empty" when nothing is left to commit (the early
\* return), "error" when the try block raised, "success" otherwise
ExitPath(rows, ok) ==
    IF rows = <<>> THEN "empty" ELSE IF ok THEN "success" ELSE "error"

\* the value returned on each exit
Return(l, path, n) ==
    CASE l \in {"process_cam_inv_dataframe", "process_kyc_status_dataframe"} -> PyNone
      [] l \in {"process_sip_wbr49_dataframe", "process_sip_expire_dataframe"} ->
            IF path = "success" THEN PyDict("success", <<n>>)
            ELSE IF path = "empty" THEN PyDict("skipped", <<>>)
            ELSE PyDict("error", <<>>)
      [] OTHER -> PyInt(IF path = "success" THEN n ELSE 0)

\* writer.writerow([today_str, source_file, ...counts]) is the last step of the
\* try block: no line on the early return, none when the block raised
SummaryLines(path, counts) == IF path = "success" THEN <<counts>> ELSE <<>>

(***************************************************************************)
(*  Inputs                                                                 *)
(***************************************************************************)

DATE1 == <<"0","2","-","0","1","-","2","0","2","4">>   \* "02-01-2024"

Row(folio, ref, date, value, valid) ==
    [folio |-> folio, ref |-> ref, sch |-> <<"S">>, date |-> date, value |-> value,
     valid |-> valid]

RawRows ==
    { Row(<<"A">>, <<"7">>, DATE1, <<"1">>, TRUE),
      Row(<<" ", "A">>, <<"7">>, DATE1, <<"2">>, TRUE),          \* "A" once stripped
      Row(<<"A">>, <<"7", ".", "0">>, DATE1, <<"3">>, TRUE),     \* 7 as a number
      Row(<<"A">>, <<"7">>, <<"x">>, <<"4">>, TRUE),             \* unparseable date
      Row(<<"A">>, <<"7">>, <<>>, <<"5">>, TRUE),                \* no date
      Row(<<"B">>, <<"7">>, DATE1, <<"1">>, FALSE) }             \* the table rejects it

\* a row the table may hold before the call
StoredRow == Row(<<"A">>, <<"7">>, DATE1, <<"9">>, TRUE)

MaxRows == 3

(***************************************************************************)
(*  The seen-key loaders as actions                                        *)
(***************************************************************************)

LoadInit(loaders) ==
    /\ loader \in loaders
    /\ df \in SeqsUpTo(RawRows, MaxRows)
    /\ has_constraint \in BOOLEAN
    /\ db_table \in {<<>>, <<CleanedRow(loader, StoredRow)>>}
    /\ table_before = db_table
    /\ load_pc = "call"
    /\ deduped_values_list = <<>>
    /\ duplicates = <<>>
    /\ load_result = NoResult
    /\ constraint_found = has_constraint
    /\ load_return = NotReturned
    /\ summary_csv = <<>>
    /\ rows_committed = 0
    /\ insert_values = <<>>
    /\ update_values = <<>>
    /\ RouteIdle
    /\ PwIdle
    /\ RunIdle
    /\ ConnIdle
    /\ AuxIdle

DedupInit == LoadInit(DedupLoaders)

\* the whole call: clean and deduplicate, final dedup, then the commit loop
\* (nothing is executed when no row is left)
DedupLoad(l) ==
    /\ load_pc = "call"
    /\ loader = l
    /\ LET d  == Deduplicate(l, df)
           dv == FinalDedup(l, d.values_list)
           c  == CommitBatches(l, [table |-> db_table, total_inserted |-> 0,
                                   committed |-> 0, ok |-> TRUE],
                               Batches(dv), has_constraint, constraint_found)
           path == ExitPath(dv, c.ok)
       IN  /\ duplicates' = d.duplicates
           /\ deduped_values_list' = dv
           /\ db_table' = c.table
           /\ load_result' = [NoResult EXCEPT !.total_inserted = c.total_inserted]
           /\ load_return' = Return(l, path, c.total_inserted)
           /\ summary_csv' = SummaryLines(path, <<c.total_inserted, Len(d.duplicates)>>)
           /\ rows_committed' = c.committed
    /\ load_pc' = "done"
    /\ UNCHANGED <<loader, df, has_constraint, table_before, constraint_found,
                   insert_values, update_values>>
    /\ UNCHANGED <<routeVars, pwVars, runVars, connVars, auxVars>>

process_cam_inv_dataframe == DedupLoad("process_cam_inv_dataframe")
process_sip_wbr49_dataframe == DedupLoad("process_sip_wbr49_dataframe")
process_sip_expire_dataframe == DedupLoad("process_sip_expire_dataframe")
process_kyc_status_dataframe == DedupLoad("process_kyc_status_dataframe")
process_investor_details_dataframe == DedupLoad("process_investor_details_dataframe")
process_kfintech_aum_dataframe == DedupLoad("process_kfintech_aum_dataframe")

DedupNext ==
    \/ process_cam_inv_dataframe
    \/ process_sip_wbr49_dataframe
    \/ process_sip_expire_dataframe
    \/ process_kyc_status_dataframe
    \/ process_investor_details_dataframe
    \/ process_kfintech_aum_dataframe

SpecDedup == DedupInit /\ [][DedupNext]_vars

\* the key of every row of df, as the loader computes it
SeenKeys == [i \in DOMAIN df |-> SeenKey(loader, df[i])]

\* the places of a sequence of keys that hold the first row of their key
FirstOf(keys) == {i \in DOMAIN keys : \A j \in 1..(i - 1) : keys[j] # keys[i]}

\* the n-th smallest element of a set of indices
Nth(S, n) == CHOOSE i \in S : Cardinality({j \in S : j <= i}) = n

\* C8: in the six seen-key loaders the rows submitted for commit are the cleaned
\* first rows of each BusinessKey, in source order and with their own fields;
\* the duplicates are the later rows of a key, in source order, so their count
\* is the number of such rows; and a row the call committed or updated carries
\* the key and the fields of a first row, never those of a later one.
C8_FirstWins ==
    load_pc = "done" /\ loader \in DedupLoaders =>
        LET first == FirstOf(SeenKeys)
            later == DOMAIN df \ first
            clean == [i \in DOMAIN df |-> CleanedRow(loader, df[i])]
        IN  /\ Len(deduped_values_list) = Cardinality(first)
            /\ \A n \in DOMAIN deduped_values_list :
                  deduped_values_list[n] = clean[Nth(first, n)]
            /\ Len(duplicates) = Cardinality(later)
            /\ \A n \in DOMAIN duplicates : duplicates[n] = df[Nth(later, n)]
            /\ \A t \in DOMAIN db_table :
                  \/ t \in DOMAIN table_before /\ db_table[t] = table_before[t]
                  \/ \E i \in first :
                        /\ RowKey(loader, db_table[t]) = RowKey(loader, clean[i])
                        /\ \A c \in UpdateColumns(loader) : db_table[t][c] = clean[i][c]

\* C8 witness: two rows share a key and differ in their fields (raw " A" and
\* "A"), a third row does not; the first was committed, the second is the one
\* duplicate
C8_Witness ==
    /\ load_pc = "done" /\ loader \in DedupLoaders
    /\ Len(df) = 3
    /\ Len(duplicates) = 1
    /\ \E i \in FirstOf(SeenKeys) : \E j \in DOMAIN df \ FirstOf(SeenKeys) :
          /\ i < j
          /\ SeenKeys[i] = SeenKeys[j]
          /\ CleanedRow(loader, df[i]) # CleanedRow(loader, df[j])
          /\ \E t \in DOMAIN db_table : db_table[t] = CleanedRow(loader, df[i])

(***************************************************************************)
(*  The loaders that classify rows into inserts and updates                *)
(*  (process_cam_aum_daily.py, kafintech_trxn_report.py)                   *)
(***************************************************************************)

ClassifyLoaders == {"process_aum_dataframe", "process_kfintech_trxn_dataframe"}

\* the elements of seq at the places in S, in order
AtPlaces(seq, S) == [n \in 1..Cardinality(S) |-> seq[Nth(S, n)]]

Min(a, b) == IF a <= b THEN a ELSE b

\* process_aum_dataframe, lines 58-108: values_list has every cleaned row,
\* unique_keys the key of each row whose four key parts are all present;
\* zip(values_list, unique_keys) pairs them by position and stops at the
\* shorter; a pair whose key exists goes to update_values, any other to
\* insert_values
AumClassify(values_list, tbl) ==
    LET l == "process_aum_dataframe"
        unique_keys == [n \in 1..Cardinality({i \in DOMAIN values_list :
                                                 ~HasNull(RowKey(l, values_list[i]))}) |->
                           RowKey(l, values_list[Nth({i \in DOMAIN values_list :
                                                 ~HasNull(RowKey(l, values_list[i]))}, n)])]
        existing_records == {unique_keys[i] : i \in DOMAIN unique_keys}
                                \cap {RowKey(l, tbl[i]) : i \in DOMAIN tbl}
        zipped == 1..Min(Len(values_list), Len(unique_keys))
    IN  [insert_values |->
            AtPlaces(values_list, {i \in zipped : unique_keys[i] \notin existing_records}),
         update_values |->
            AtPlaces(values_list, {i \in zipped : unique_keys[i] \in existing_records})]

\* process_kfintech_trxn_dataframe, lines 92-125: a row without unqno or whose
\* unqno is not stored is new; a stored one is updated only when td_trno,
\* td_trdt or td_amt differ from the stored row (the last one read)
TrxnClassify(values_list, tbl) ==
    LET l == "process_kfintech_trxn_dataframe"
        unqno(r) == RowKey(l, r)
        stored(r) == tbl[CHOOSE i \in DOMAIN tbl :
                            /\ unqno(tbl[i]) = unqno(r)
                            /\ \A j \in DOMAIN tbl : unqno(tbl[j]) = unqno(r) => j <= i]
        isNew(r) == HasNull(unqno(r)) \/ ~KeyInTable(l, tbl, unqno(r))
        differs(r) == \E c \in TrackedColumns : stored(r)[c] # r[c]
    IN  [insert_values |->
            AtPlaces(values_list, {i \in DOMAIN values_list : isNew(values_list[i])}),
         update_values |->
            AtPlaces(values_list, {i \in DOMAIN values_list :
                                      ~isNew(values_list[i]) /\ differs(values_list[i])})]

\* the rows of a failed batch, each in a statement and a transaction of its
\* own: a rejected row is counted and rolled back, the others are committed
RECURSIVE InsertIndividually(_, _, _, _)
InsertIndividually(l, st, batch, uniq) ==
    IF batch = <<>> THEN st
    ELSE IF Rejected(l, st.table, Head(batch), uniq)
    THEN InsertIndividually(l, [st EXCEPT !.failed_operations = @ + 1], Tail(batch), uniq)
    ELSE InsertIndividually(l, [st EXCEPT !.table = Append(@, Head(batch)),
                                          !.total_inserted = @ + 1], Tail(batch), uniq)

\* a loader that gives a failed batch up
InsertBatchNoFallback(l, st, batch, uniq) ==
    LET r == InsertAll(l, st.table, batch, uniq)
    IN  IF r.ok
        THEN [st EXCEPT !.table = r.table, !.total_inserted = @ + Len(batch)]
        ELSE [st EXCEPT !.failed_operations = @ + 1]

\* one batch of the insert path: execute_values and commit, or on an error
\* rollback and the rows one by one
InsertBatch(l, st, batch, uniq) ==
    LET r == InsertAll(l, st.table, batch, uniq)
    IN  IF r.ok
        THEN [st EXCEPT !.table = r.table, !.total_inserted = @ + Len(batch)]
        ELSE InsertIndividually(l, st, batch, uniq)

RECURSIVE InsertBatches(_, _, _, _)
InsertBatches(l, st, batches, uniq) ==
    IF batches = <<>> THEN st
    ELSE InsertBatches(l, InsertBatch(l, st, Head(batches), uniq), Tail(batches), uniq)

\* cursor.execute(update_query, update_data) raises: the row breaks a column
\* constraint, or the statement cannot be built. In kafintech_trxn_report.py
\* update_query has 84 placeholders (83 in SET, 1 in WHERE) and update_data =
\* record[:87] + (source_file, datetime.now(), record[30]) has 88 values, so
\* the execute of every row raises before a statement is sent
UpdateRaises(l, r) == l = "process_kfintech_trxn_dataframe" \/ ~Valid(r)

\* the update path: one UPDATE and one transaction per row; a failed one is
\* counted and rolled back
RECURSIVE UpdateEach(_, _, _)
UpdateEach(l, st, rows) ==
    IF rows = <<>> THEN st
    ELSE IF UpdateRaises(l, Head(rows))
    THEN UpdateEach(l, [st EXCEPT !.failed_operations = @ + 1], Tail(rows))
    ELSE UpdateEach(l, [st EXCEPT !.table = UpdateRows(l, @, Head(rows)),
                                  !.total_updated = @ + 1], Tail(rows))

Classify(l, values_list, tbl) ==
    IF l = "process_aum_dataframe" THEN AumClassify(values_list, tbl)
    ELSE TrxnClassify(values_list, tbl)

ClassifyInit == LoadInit(ClassifyLoaders)

\* the whole call: clean, look up the stored keys, classify, insert path, then
\* update path; process_kfintech_trxn_dataframe keeps no failure count
ClassifyLoad(l) ==
    /\ load_pc = "call"
    /\ loader = l
    /\ LET values_list == [i \in DOMAIN df |-> CleanedRow(l, df[i])]
           c  == Classify(l, values_list, db_table)
           s0 == [table |-> db_table, total_inserted |-> 0, total_updated |-> 0,
                  failed_operations |-> 0]
           s1 == InsertBatches(l, s0, Batches(c.insert_values), has_constraint)
           s2 == UpdateEach(l, s1, c.update_values)
           path == ExitPath(values_list, TRUE)
           failed == IF l = "process_aum_dataframe" THEN <<s2.failed_operations>> ELSE <<>>
       IN  /\ insert_values' = c.insert_values
           /\ update_values' = c.update_values
           /\ db_table' = s2.table
           /\ load_return' = Return(l, path, s2.total_inserted + s2.total_updated)
           /\ summary_csv' =
                 SummaryLines(path, <<Len(values_list), s2.total_inserted,
                                      s2.total_updated>> \o failed)
           /\ rows_committed' = (Len(s2.table) - Len(db_table)) + s2.total_updated
           /\ load_result' =
                 [total_inserted |-> s2.total_inserted,
                  total_updated |-> s2.total_updated,
                  failed_operations |->
                      IF l = "process_aum_dataframe" THEN s2.failed_operations ELSE 0]
    /\ load_pc' = "done"
    /\ UNCHANGED <<loader, df, has_constraint, table_before, deduped_values_list,
                   duplicates, constraint_found>>
    /\ UNCHANGED <<routeVars, pwVars, runVars, connVars, auxVars>>

process_aum_dataframe == ClassifyLoad("process_aum_dataframe")
process_kfintech_trxn_dataframe == ClassifyLoad("process_kfintech_trxn_dataframe")

ClassifyNext ==
    \/ process_aum_dataframe
    \/ process_kfintech_trxn_dataframe

SpecClassify == ClassifyInit /\ [][ClassifyNext]_vars

\* the rows the call inserted: inserts are appended, updates change rows in place
InsertedRows == SubSeq(db_table, Len(table_before) + 1, Len(db_table))

\* C9: the rows one call of process_aum_dataframe or
\* process_kfintech_trxn_dataframe inserted have pairwise distinct BusinessKeys.
C9_DistinctInsertedKeys ==
    load_pc = "done" /\ loader \in ClassifyLoaders =>
        \A i, j \in DOMAIN InsertedRows :
            i # j => RowKey(loader, InsertedRows[i]) # RowKey(loader, InsertedRows[j])

\* the rows of the insert path that violate a constraint when their turn
\* comes: a column constraint, or the unique constraint against the table or
\* an earlier row
Violating(l, ins, tbl, uniq) ==
    {i \in DOMAIN ins :
        \/ ~Valid(ins[i])
        \/ /\ uniq
           /\ ~HasNull(RowKey(l, ins[i]))
           /\ \/ KeyInTable(l, tbl, RowKey(l, ins[i]))
              \/ \E j \in 1..(i - 1) : RowKey(l, ins[j]) = RowKey(l, ins[i])}

\* C10: when exactly one of the N rows process_aum_dataframe sends down its
\* insert path violates a constraint (and no update fails), the other N-1 rows
\* are committed, those of the following batches included, the insert count is
\* N-1 and the failure count is 1.
C10_RowLevelFallback ==
    load_pc = "done" /\ loader = "process_aum_dataframe" =>
        LET c   == AumClassify([i \in DOMAIN df |-> CleanedRow(loader, df[i])], table_before)
            ins == c.insert_values
            bad == Violating(loader, ins, table_before, has_constraint)
        IN  /\ Cardinality(bad) = 1
            /\ \A u \in DOMAIN c.update_values : Valid(c.update_values[u])
            =>  /\ InsertedRows = AtPlaces(ins, DOMAIN ins \ bad)
                /\ load_result.total_inserted = Len(ins) - 1
                /\ load_result.failed_operations = 1

\* C10 witness: three new rows, the first batch holds the one violating row
\* and a good one, a further batch follows; two rows were committed
C10_Witness ==
    /\ load_pc = "done" /\ loader = "process_aum_dataframe"
    /\ LET c   == AumClassify([i \in DOMAIN df |-> CleanedRow(loader, df[i])], table_before)
           ins == c.insert_values
           bad == Violating(loader, ins, table_before, has_constraint)
       IN  /\ Len(ins) > BATCH_SIZE
           /\ Cardinality(bad) = 1
           /\ \A i \in bad : i <= BATCH_SIZE
           /\ c.update_values = <<>>
           /\ Len(InsertedRows) = Len(ins) - 1
           /\ load_result.failed_operations = 1

(***************************************************************************)
(*  Row-level failures in the upsert loaders                               *)
(***************************************************************************)

\* the seen-key loaders whose statement is always INSERT ... ON CONFLICT
UpsertLoaders == DedupLoaders \ {"process_sip_expire_dataframe"}

\* r is in the table as the call's statement leaves it: a row with r's key and
\* r's updatable fields
Committed(l, tbl, r) ==
    \E t \in DOMAIN tbl :
        /\ RowKey(l, tbl[t]) = RowKey(l, r)
        /\ \A c \in UpdateColumns(l) : tbl[t][c] = r[c]

\* C11: in the upsert loaders, when the table has its unique constraint and a
\* row submitted for commit is rejected by the table, every other valid
\* submitted row, of the same batch and of the later batches, is committed.
C11_SiblingsCommitted ==
    (/\ load_pc = "done" /\ loader \in UpsertLoaders
     /\ has_constraint
     /\ \E i \in DOMAIN deduped_values_list : ~Valid(deduped_values_list[i]))
    => \A i \in DOMAIN deduped_values_list :
          Valid(deduped_values_list[i]) =>
              Committed(loader, db_table, deduped_values_list[i])

(***************************************************************************)
(*  What a loader hands back to main                                       *)
(***************************************************************************)

\* C12: when a seen-key loader has returned, the value main receives carries a
\* count (an int, or the "processed" entry of the dict) and that count is the
\* number of rows the call committed, also when a later batch failed after
\* earlier batches were committed.
C12_ReturnIsCommitted ==
    load_pc = "done" /\ loader \in DedupLoaders =>
        load_return.processed = <<rows_committed>>

\* C13: every call of a seen-key loader has appended exactly one line to the
\* day's summary.csv when it returns, on every exit: also when nothing was left
\* to commit and when the commit loop raised.
C13_OneSummaryLine ==
    load_pc = "done" /\ loader \in DedupLoaders => Len(summary_csv) = 1

(***************************************************************************)
(*  End to end: one document through a seen-key loader                     *)
(***************************************************************************)

\* the loaders of the scenario: seen-key loop, final dedup, upsert
E2ELoaders == {"process_sip_wbr49_dataframe", "process_cam_inv_dataframe"}

\* raw records the table accepts: two that clean to one key where the
\* reference is numeric, two with keys of their own, one whose date does not
\* parse
E2ERows ==
    { Row(<<"A">>, <<"7">>, DATE1, <<"1">>, TRUE),
      Row(<<" ", "A">>, <<"7", ".", "0">>, DATE1, <<"2">>, TRUE),
      Row(<<"B">>, <<"7">>, DATE1, <<"3">>, TRUE),
      Row(<<"C">>, <<"7">>, DATE1, <<"4">>, TRUE),
      Row(<<"A">>, <<"7">>, <<"x">>, <<"5">>, TRUE) }

DocRecords == 5

\* the records whose date is present and does not parse
BadDate(rows) == {i \in DOMAIN rows : rows[i].date # <<>> /\ clean_date(rows[i].date) = NULL}

\* exactly two records of the document share a BusinessKey, exactly one record
\* has an unparseable date, and it is not one of the two
Scenario(l, rows) ==
    LET keys == [i \in DOMAIN rows |-> SeenKey(l, rows[i])]
        bad  == BadDate(rows)
    IN  /\ Cardinality(FirstOf(keys)) = Len(rows) - 1
        /\ Cardinality(bad) = 1
        /\ \A i \in bad : \A j \in DOMAIN rows : j # i => keys[j] # keys[i]

\* a document of the scenario and an empty target table that has its unique
\* constraint
E2EInit ==
    /\ loader \in E2ELoaders
    /\ df \in [1..DocRecords -> E2ERows]
    /\ Scenario(loader, df)
    /\ has_constraint = TRUE
    /\ constraint_found = TRUE
    /\ db_table = <<>>
    /\ table_before = <<>>
    /\ load_pc = "call"
    /\ deduped_values_list = <<>>
    /\ duplicates = <<>>
    /\ load_result = NoResult
    /\ load_return = NotReturned
    /\ summary_csv = <<>>
    /\ rows_committed = 0
    /\ insert_values = <<>>
    /\ update_values = <<>>
    /\ RouteIdle
    /\ PwIdle
    /\ RunIdle
    /\ ConnIdle
    /\ AuxIdle

E2ENext ==
    \/ process_sip_wbr49_dataframe
    \/ process_cam_inv_dataframe

SpecEndToEnd == E2EInit /\ [][E2ENext]_vars

\* C14: a document in which exactly two records share a BusinessKey and one
\* other record has an unparseable date, loaded into an empty table: every
\* record but the second of the pair is committed (one less than the
\* document has, 4 of 5), the first of the pair with its own fields and the
\* bad-date record with a null date; one duplicate; no failure: the summary
\* line has these counts and process_sip_wbr49_dataframe reports them.
C14_EndToEnd ==
    load_pc = "done" /\ loader \in E2ELoaders /\ table_before = <<>>
        /\ Scenario(loader, df) =>
        LET first == FirstOf(SeenKeys)
            bad   == BadDate(df)
        IN  /\ rows_committed = Len(df) - 1
            /\ Len(db_table) = Len(df) - 1
            /\ \A n \in DOMAIN db_table :
                  db_table[n] = CleanedRow(loader, df[Nth(first, n)])
            /\ \A i \in bad : \E t \in DOMAIN db_table :
                  /\ db_table[t] = CleanedRow(loader, df[i])
                  /\ NULL \in {db_table[t][c] : c \in DOMAIN db_table[t]}
            /\ Len(duplicates) = 1
            /\ \A i \in DOMAIN df \ first : duplicates = <<df[i]>>
            /\ summary_csv = << <<Len(df) - 1, 1>> >>
            /\ loader = "process_sip_wbr49_dataframe" =>
                  load_return = PyDict("success", <<Len(df) - 1>>)

\* C14 witness: process_sip_wbr49_dataframe has loaded a document of 5
\* records of the scenario whose pair differs in its raw fields
C14_Witness ==
    /\ load_pc = "done" /\ loader = "process_sip_wbr49_dataframe"
    /\ Len(df) = 5 /\ Scenario(loader, df)
    /\ \E i, j \in DOMAIN df :
          i < j /\ SeenKey(loader, df[i]) = SeenKey(loader, df[j]) /\ df[i] # df[j]
    /\ Len(db_table) = 4

(***************************************************************************)
(*  The Mail Harvester under failures                                      *)
(*  (email_dbf_download_handler.py, process_dbf_download_links)            *)
(***************************************************************************)

\* where handling a message raises: "early" before its archive is looked at
\* (fetch, decoding, password resolution), "late" after the archive's
\* Documents were appended (a later attachment or link of the message)
Faults == {"none", "early", "late"}

HMessages ==
    [subject : {<<"h","i">>}, kind : {"attachment", "link"}, name : {<<"f">>},
     files : {<<"ok">>, <<"bad", "ok">>}, fault : Faults]

MaxMessages == 2

\* lines 95-99: IMAP4_SSL, login, select, search
ConnectionSteps == {"connect", "login", "select", "search"}

HarvestInit ==
    /\ inbox \in SeqsUpTo(HMessages, MaxMessages)
    /\ disk = {}
    /\ disk_state = "ok"
    /\ processed_files = {}
    /\ run_pc = "idle"
    /\ h_idx = 0
    /\ all_files = <<>>
    /\ d_idx = 0
    /\ processing_summary = [success |-> 0, failures |-> 0, details |-> 0]
    /\ ever_marked = {}
    /\ emitted_prev = {}
    /\ unloaded = {}
    /\ rows_run = {}
    /\ mail = "closed"
    /\ outcomes = <<>>
    /\ attempted = <<>>
    /\ RouteIdle
    /\ PwIdle
    /\ LoadIdle
    /\ ConnIdle
    /\ AuxIdle

\* lines 94-99 and 294-298: one of the connection steps raises; the outer
\* except logs it and the function returns all_files
ConnectionFails ==
    /\ run_pc = "idle"
    /\ processed_files' = load_processed_files(disk, disk_state)
    /\ \E step \in ConnectionSteps : mail' = step
    /\ run_pc' = "returned"
    /\ UNCHANGED <<inbox, disk, disk_state, h_idx, all_files, d_idx, processing_summary,
                   ever_marked, emitted_prev, unloaded, rows_run, outcomes, attempted>>
    /\ UNCHANGED <<routeVars, pwVars, loadVars, connVars, auxVars>>

\* lines 101-104: the search found nothing: logout and return []
NoMailToday ==
    /\ run_pc = "idle"
    /\ inbox = <<>>
    /\ processed_files' = load_processed_files(disk, disk_state)
    /\ mail' = "logged_out"
    /\ all_files' = <<>>
    /\ run_pc' = "returned"
    /\ UNCHANGED <<inbox, disk, disk_state, h_idx, d_idx, processing_summary,
                   ever_marked, emitted_prev, unloaded, rows_run, outcomes, attempted>>
    /\ UNCHANGED <<routeVars, pwVars, loadVars, connVars, auxVars>>

\* lines 94-106: connected, the search returned today's messages
Connected ==
    /\ run_pc = "idle"
    /\ inbox # <<>>
    /\ processed_files' = load_processed_files(disk, disk_state)
    /\ mail' = "up"
    /\ run_pc' = "harvest"
    /\ UNCHANGED <<inbox, disk, disk_state, h_idx, all_files, d_idx, processing_summary,
                   ever_marked, emitted_prev, unloaded, rows_run, outcomes, attempted>>
    /\ UNCHANGED <<routeVars, pwVars, loadVars, connVars, auxVars>>

\* the server or the network drops the connection while the loop runs
ConnectionLost ==
    /\ run_pc = "harvest"
    /\ mail = "up"
    /\ mail' = "lost"
    /\ UNCHANGED <<inbox, disk, disk_state, processed_files, run_pc, h_idx, all_files,
                   d_idx, processing_summary, ever_marked, emitted_prev, unloaded,
                   rows_run, outcomes, attempted>>
    /\ UNCHANGED <<routeVars, pwVars, loadVars, connVars, auxVars>>

\* a loop that an exception in one message ends
AfterExceptionBreak(i, n) == n

\* lines 288-290: except Exception ... continue
AfterException(i, n) == i + 1

\* the Documents of message i, as appended to all_files
DocumentsOf(u, i, pf, dsk, ds) ==
    LET r == ReadFiles(u.files, u, pf, dsk, ds, <<>>)
    IN  [mem |-> r.mem, disk |-> r.disk,
         docs |-> [n \in DOMAIN r.docs |->
                      [key |-> r.docs[n].key, subject |-> r.docs[n].subject, msg |-> i]]]

\* lines 108-290, one message of the loop: fetch raises on a lost connection;
\* otherwise the archive is handled as far as the message's fault allows
HarvestMessage ==
    /\ run_pc = "harvest"
    /\ h_idx < Len(inbox)
    /\ LET i == h_idx + 1
           u == inbox[i]
           r == DocumentsOf(u, i, processed_files, disk, disk_state)
       IN  IF mail = "lost"
           THEN /\ outcomes' = Append(outcomes, "lost")
                /\ h_idx' = AfterException(h_idx, Len(inbox))
                /\ UNCHANGED <<processed_files, disk, all_files>>
           ELSE /\ outcomes' = Append(outcomes, "fetched")
                /\ h_idx' = IF u.fault = "none" THEN h_idx + 1
                            ELSE AfterException(h_idx, Len(inbox))
                /\ IF u.fault = "early" \/ is_already_processed(DocumentKey(u), processed_files)
                   THEN UNCHANGED <<processed_files, disk, all_files>>
                   ELSE /\ processed_files' = r.mem
                        /\ disk' = r.disk
                        /\ all_files' = all_files \o r.docs
    /\ UNCHANGED <<inbox, disk_state, run_pc, d_idx, processing_summary, ever_marked,
                   emitted_prev, unloaded, rows_run, mail, attempted>>
    /\ UNCHANGED <<routeVars, pwVars, loadVars, connVars, auxVars>>

\* lines 292-298: mail.logout() raises on a lost connection and the outer
\* except logs it; either way all_files is returned
HarvestReturn ==
    /\ run_pc = "harvest"
    /\ h_idx = Len(inbox)
    /\ mail' = IF mail = "up" THEN "logged_out" ELSE mail
    /\ run_pc' = "returned"
    /\ UNCHANGED <<inbox, disk, disk_state, processed_files, h_idx, all_files, d_idx,
                   processing_summary, ever_marked, emitted_prev, unloaded, rows_run,
                   outcomes, attempted>>
    /\ UNCHANGED <<routeVars, pwVars, loadVars, connVars, auxVars>>

HarvestNext ==
    \/ ConnectionFails
    \/ NoMailToday
    \/ Connected
    \/ ConnectionLost
    \/ HarvestMessage
    \/ HarvestReturn

SpecHarvest == HarvestInit /\ [][HarvestNext]_vars

\* message i was fetched and did not raise before its archive was handled
Handled(i) == outcomes[i] = "fetched" /\ inbox[i].fault # "early"

\* the Documents message i leaves in all_files: one per payload file that
\* parses, unless an earlier handled message had the same key
Discovered(i) ==
    IF /\ Handled(i)
       /\ ~\E j \in 1..(i - 1) :
             Handled(j) /\ DocumentKey(inbox[j]) = DocumentKey(inbox[i])
    THEN Cardinality({n \in DOMAIN inbox[i].files : inbox[i].files[n] = "ok"})
    ELSE 0

\* C15: process_dbf_download_links always returns. After a failure of connect,
\* login, select or search it returns an empty list and no message was
\* handled. Otherwise every message of the search was reached, whatever the
\* messages before it did, and the returned list holds, in message order,
\* exactly the Documents of the messages that were fetched and handled: an
\* exception in one message or a connection lost on the way removes nothing
\* that was discovered before.
C15_HarvesterFailures ==
    run_pc = "returned" =>
        IF mail \in ConnectionSteps
        THEN all_files = <<>> /\ h_idx = 0 /\ outcomes = <<>>
        ELSE /\ Len(outcomes) = Len(inbox)
             /\ \A i \in DOMAIN inbox :
                   Cardinality({n \in DOMAIN all_files : all_files[n].msg = i})
                       = Discovered(i)
             /\ \A a, b \in DOMAIN all_files :
                   a < b => all_files[a].msg <= all_files[b].msg

\* C15 witness: the first of two messages raised, the second was handled and
\* its Document is in the returned list
C15_Witness ==
    /\ run_pc = "returned"
    /\ Len(inbox) = 2
    /\ inbox[1].fault = "early"
    /\ outcomes = <<"fetched", "fetched">>
    /\ \E n \in DOMAIN all_files : all_files[n].msg = 2

(***************************************************************************)
(*  main's loop over the Documents (main.py, lines 89-168)                 *)
(***************************************************************************)

\* a pass of the loop, or the end of the job
MainNext ==
    \/ MainSkip
    \/ MainLoadOk
    \/ MainLoadFailed
    \/ MainLoadRaised
    \/ EndRun

\* main is sequential code: once it has the Documents, its next step is taken
SpecRunLive == SpecRun /\ WF_vars(MainNext)

\* every Document handled so far was attempted, in the order of all_files
AttemptedInTurn ==
    Len(attempted) = d_idx /\ \A i \in DOMAIN attempted : attempted[i].doc = i

\* C16: whatever the loaders do (return, fail inside, raise), main attempts the
\* Documents one after the other, in order and without leaving one out, and a
\* run that has its Documents always comes to its end.
C16_DocumentsIndependent ==
    /\ [](run_pc = "main" => AttemptedInTurn /\ d_idx <= Len(all_files))
    /\ [](run_pc = "idle" => Len(attempted) = Len(all_files))
    /\ ((run_pc = "main") ~> (run_pc = "idle"))

\* C16 witness: the loader raised on the first of two Documents and the second
\* was attempted, and raised too
C16_Witness ==
    /\ run_pc = "main"
    /\ Len(all_files) = 2
    /\ Len(attempted) = 2 /\ attempted[2].doc = 2
    /\ processing_summary.failures = 2

\* the Documents of the run whose rows the loader committed
CommittedDocuments == {i \in DOMAIN attempted : attempted[i].committed}

\* C17: when main has gone through the Documents, each of them has one detail
\* line and one increment of success or failures, and success counts exactly
\* the Documents whose rows were committed: a Document without a target table
\* or whose loader met a database error is counted under failures.
C17_TallyTruthful ==
    run_pc = "main" /\ d_idx = Len(all_files) =>
        /\ processing_summary.details = Len(all_files)
        /\ processing_summary.success + processing_summary.failures = Len(all_files)
        /\ processing_summary.success = Cardinality(CommittedDocuments)

(***************************************************************************)
(*  Insert/update classification in process_aum_dataframe                  *)
(***************************************************************************)

\* the cleaned rows of the document
ValuesList == [i \in DOMAIN df |-> CleanedRow(loader, df[i])]

\* the row's own BusinessKey is complete and was in the table at the lookup
OwnKeyExists(r) ==
    ~HasNull(RowKey(loader, r)) /\ KeyInTable(loader, table_before, RowKey(loader, r))

\* C18: process_aum_dataframe routes every cleaned row to exactly one path:
\* update_values holds, in order, the rows whose own key was in the table,
\* insert_values all the others, also the rows with an empty key part.
C18_ClassifiedByOwnKey ==
    load_pc = "done" /\ loader = "process_aum_dataframe" =>
        /\ update_values =
              AtPlaces(ValuesList, {i \in DOMAIN df : OwnKeyExists(ValuesList[i])})
        /\ insert_values =
              AtPlaces(ValuesList, {i \in DOMAIN df : ~OwnKeyExists(ValuesList[i])})

(***************************************************************************)
(*  process_sip_expire_dataframe and the unique constraint                 *)
(***************************************************************************)

\* check_unique_constraint_exists looks for a UNIQUE constraint on exactly
\* (folio_no, ref_no, to_date) in pg_constraint and answers False when its
\* query raises: it can miss uniqueness the table does enforce (a unique
\* index, a primary key), and never reports one the table lacks
SipExpireInit ==
    /\ loader = "process_sip_expire_dataframe"
    /\ df \in SeqsUpTo(RawRows, MaxRows)
    /\ has_constraint \in BOOLEAN
    /\ constraint_found \in BOOLEAN
    /\ constraint_found => has_constraint
    /\ db_table \in {<<>>, <<CleanedRow(loader, StoredRow)>>}
    /\ table_before = db_table
    /\ load_pc = "call"
    /\ deduped_values_list = <<>>
    /\ duplicates = <<>>
    /\ load_result = NoResult
    /\ load_return = NotReturned
    /\ summary_csv = <<>>
    /\ rows_committed = 0
    /\ insert_values = <<>>
    /\ update_values = <<>>
    /\ RouteIdle
    /\ PwIdle
    /\ RunIdle
    /\ ConnIdle
    /\ AuxIdle

SipExpireNext == process_sip_expire_dataframe

SpecSipExpire == SipExpireInit /\ [][SipExpireNext]_vars

\* a submitted row whose key the table did not hold at the call
NotADuplicate(r) ==
    HasNull(RowKey(loader, r)) \/ ~KeyInTable(loader, table_before, RowKey(loader, r))

\* C19: process_sip_expire_dataframe, when it finds no unique constraint and
\* the table accepts every row but duplicates: the call returns its dict
\* without an error status, every submitted row that is not a duplicate is
\* committed, also in a batch that hit a duplicate-key error, and "processed"
\* is the number of rows committed.
C19_GracefulWithoutConstraint ==
    (/\ load_pc = "done" /\ loader = "process_sip_expire_dataframe"
     /\ ~constraint_found
     /\ deduped_values_list # <<>>
     /\ \A i \in DOMAIN deduped_values_list : Valid(deduped_values_list[i]))
    => /\ load_return.status = "success"
       /\ \A i \in DOMAIN deduped_values_list :
             NotADuplicate(deduped_values_list[i]) =>
                 \E t \in DOMAIN db_table : db_table[t] = deduped_values_list[i]
       /\ load_return.processed = <<rows_committed>>

(***************************************************************************)
(*  Database connections: get_db_connection and conn.close()               *)
(***************************************************************************)

\* the functions that acquire a connection and work inside try/finally with
\* conn.close() in the finally block: the commit section of every loader, and
\* the helpers of process_sip.py, process_sip_expire.py, process_cam_brokerage.py
FinallyUnits ==
    {"process_cam_inv_dataframe", "is_file_already_processed",
     "check_unique_constraint_exists"}

\* the functions whose conn.close() is the last statement of the straight path
StraightUnits == {"fetch_existing_keys", "get_investors_with_upcoming_sip"}

UnitKinds == FinallyUnits \cup StraightUnits

\* a unit of work: the function, and whether its statement raises
Units == [kind : UnitKinds, raises : BOOLEAN]

MaxUnits == 2

ConnInit ==
    /\ units \in SeqsUpTo(Units, MaxUnits)
    /\ u_idx = 0
    /\ conn_pc = "idle"
    /\ open_connections = {}
    /\ RouteIdle
    /\ PwIdle
    /\ RunIdle
    /\ LoadIdle
    /\ AuxIdle

\* conn = get_db_connection()
Acquire ==
    /\ conn_pc = "idle"
    /\ u_idx < Len(units)
    /\ open_connections' = open_connections \cup {u_idx + 1}
    /\ conn_pc' = "acquired"
    /\ UNCHANGED <<units, u_idx>>
    /\ UNCHANGED <<routeVars, pwVars, runVars, loadVars, auxVars>>

\* cursor.execute / execute_values / commit: returns or raises
Execute ==
    /\ conn_pc = "acquired"
    /\ conn_pc' = IF units[u_idx + 1].raises THEN "raised" ELSE "ok"
    /\ UNCHANGED <<units, u_idx, open_connections>>
    /\ UNCHANGED <<routeVars, pwVars, runVars, loadVars, auxVars>>

\* whether conn.close() is executed on the way out
Closes(kind, pc) == kind \in FinallyUnits \/ pc = "ok"

\* the exception leaves the function: fetch_existing_keys has no handler (its
\* caller's document is over); the others log and return
Propagates(kind, pc) == kind = "fetch_existing_keys" /\ pc = "raised"

\* the way out of the unit of work
Exit ==
    /\ conn_pc \in {"ok", "raised"}
    /\ LET kind == units[u_idx + 1].kind
       IN  /\ open_connections' =
                 IF Closes(kind, conn_pc) THEN open_connections \ {u_idx + 1}
                 ELSE open_connections
           /\ u_idx' = IF Propagates(kind, conn_pc) THEN Len(units) ELSE u_idx + 1
    /\ conn_pc' = "idle"
    /\ UNCHANGED units
    /\ UNCHANGED <<routeVars, pwVars, runVars, loadVars, auxVars>>

\* the runtime finalizes a connection object nothing refers to any more, at a
\* time of its choosing
Finalize ==
    /\ conn_pc = "idle"
    /\ \E c \in open_connections : open_connections' = open_connections \ {c}
    /\ UNCHANGED <<units, u_idx, conn_pc>>
    /\ UNCHANGED <<routeVars, pwVars, runVars, loadVars, auxVars>>

ConnNext ==
    \/ Acquire
    \/ Execute
    \/ Exit
    \/ Finalize

SpecConnections == ConnInit /\ [][ConnNext]_vars

\* C20: whenever a unit of work is over, on the straight path or through an
\* exception, the connection it acquired is closed: between units of work, and
\* at the end of the document, no connection is open.
C20_ConnectionsClosed ==
    conn_pc = "idle" => open_connections = {}


(***************************************************************************)
(*  Archive downloads  (download_zip_from_url and the URL loop of          *)
(*  process_dbf_download_links)                                            *)
(***************************************************************************)

\* what a request to the archive's server ends in: an HTTP status, or no
\* answer within timeout=60
Responses == {"200", "404", "429", "500", "503", "timeout"}

\* the responses that ask for the request to be repeated
Retryable == {"429", "500", "503"}

UrlKinds == {"camsonline", "kfintech"}

MaxUrls == 2

DlInit ==
    /\ dl_urls \in SeqsUpTo(UrlKinds, MaxUrls)
    /\ dl_idx = 0
    /\ dl_pc = "loop"
    /\ dl_attempts = <<>>
    /\ dl_results = <<>>
    /\ RouteIdle
    /\ PwIdle
    /\ RunIdle
    /\ LoadIdle
    /\ ConnIdle
    /\ CnIdle
    /\ AtIdle
    /\ BkIdle
    /\ KbIdle
    /\ CcIdle

\* the variables the URL loop leaves alone
DlOthers == <<routeVars, pwVars, runVars, loadVars, connVars, cnVars, atVars, bkVars, kbVars, ccVars>>

\* the request is recorded with the requests already sent for the same URL
Requested(attempts, i, r) ==
    IF Len(attempts) < i THEN Append(attempts, <<r>>)
    ELSE [attempts EXCEPT ![i] = Append(@, r)]

\* response = requests.get(url, timeout=60)
RequestsGet ==
    /\ dl_pc = "loop"
    /\ dl_idx < Len(dl_urls)
    /\ \E r \in Responses : dl_attempts' = Requested(dl_attempts, dl_idx + 1, r)
    /\ dl_pc' = "requested"
    /\ UNCHANGED <<dl_urls, dl_idx, dl_results>>
    /\ UNCHANGED DlOthers

\* response.raise_for_status() raises for 4xx and 5xx, requests.get raises on a
\* timeout; the except clause turns every exception into False
download_zip_from_url(responses) == responses[Len(responses)] = "200"

\* if download_zip_from_url(url, zip_path): ... ; the loop goes to the next URL
DownloadReturns ==
    /\ dl_pc = "requested"
    /\ dl_results' = Append(dl_results, download_zip_from_url(dl_attempts[dl_idx + 1]))
    /\ dl_idx' = dl_idx + 1
    /\ dl_pc' = "loop"
    /\ UNCHANGED <<dl_urls, dl_attempts>>
    /\ UNCHANGED DlOthers

\* the loop over unique_urls is over
UrlsDone ==
    /\ dl_pc = "loop"
    /\ dl_idx = Len(dl_urls)
    /\ dl_pc' = "done"
    /\ UNCHANGED <<dl_urls, dl_idx, dl_attempts, dl_results>>
    /\ UNCHANGED DlOthers

DlNext ==
    \/ RequestsGet
    \/ DownloadReturns
    \/ UrlsDone

SpecDownload == DlInit /\ [][DlNext]_vars

\* C21: a URL whose download was given up after a 429 or 5xx response to its
\* first request was requested at least twice (the code has no attempt ceiling
\* to compare the number of requests with).
C21_BoundedRetry ==
    \A i \in DOMAIN dl_results :
        (~dl_results[i] /\ dl_attempts[i][1] \in Retryable) => Len(dl_attempts[i]) >= 2


(***************************************************************************)
(*  clean_numeric of the loaders: the common form, and the variants of     *)
(*  kfintech_brokerage.py and mutual_fund_processor.py                     *)
(***************************************************************************)

\* the modules with the three forms of clean_numeric
CnModules == {"process_dbf", "kfintech_brokerage", "mutual_fund_processor"}

\* the characters of a cell's text
CnChars == {"1", "2", ",", ".", " ", "a"}

MaxCellLen == 4

CellTexts == SeqsUpTo(CnChars, MaxCellLen)

\* re.sub(r'[^\d.-]', '', str(val)): only digits, "." and "-" are kept
KeepNumeric(val) == SelectSeq(val, LAMBDA c : c \in Digits \cup {".", "-"})

\* kfintech_brokerage.clean_numeric
kfintech_brokerage_clean_numeric(val) ==
    IF Strip(val) = <<>> THEN NULL
    ELSE LET cleaned_val == KeepNumeric(val)
         IN  IF cleaned_val = <<>> THEN NULL ELSE ParseFloat(cleaned_val)

\* mutual_fund_processor.clean_numeric: float for a text with a ".", else int
mutual_fund_clean_numeric(val) ==
    IF Strip(val) = <<>> THEN NULL
    ELSE LET val_str == Strip(Remove(Remove(val, ","), "%"))
         IN  IF \E i \in DOMAIN val_str : val_str[i] = "." THEN ParseFloat(val_str)
             ELSE IF val_str # <<>> /\ AllDigits(val_str) THEN <<ParseInt(val_str), <<>>>>
             ELSE NULL

CleanNumericOf(module, val) ==
    CASE module = "kfintech_brokerage"    -> kfintech_brokerage_clean_numeric(val)
      [] module = "mutual_fund_processor" -> mutual_fund_clean_numeric(val)
      [] OTHER                            -> clean_numeric(val)

CnOthers == <<routeVars, pwVars, runVars, loadVars, connVars, dlVars, atVars, bkVars, kbVars, ccVars>>

CnInit ==
    /\ cn_module \in CnModules
    /\ cn_val \in CellTexts
    /\ cn_out = <<>>
    /\ cn_pc = "call"
    /\ RouteIdle
    /\ PwIdle
    /\ RunIdle
    /\ LoadIdle
    /\ ConnIdle
    /\ DlIdle
    /\ AtIdle
    /\ BkIdle
    /\ KbIdle
    /\ CcIdle

\* the call never raises: every exception of the conversion is caught
CallCleanNumeric ==
    /\ cn_pc = "call"
    /\ cn_out' = CleanNumericOf(cn_module, cn_val)
    /\ cn_pc' = "done"
    /\ UNCHANGED <<cn_module, cn_val>>
    /\ UNCHANGED CnOthers

CnNext == CallCleanNumeric

SpecCleanNumeric == CnInit /\ [][CnNext]_vars

\* a decimal number as written: digits with at most one ".", at least one digit
PlainNumber(t) ==
    /\ \A i \in DOMAIN t : t[i] \in Digits \cup {"."}
    /\ Cardinality({i \in DOMAIN t : t[i] = "."}) <= 1
    /\ \E i \in DOMAIN t : t[i] \in Digits

\* C22: clean_numeric gives null for an empty text, a text of blanks and a text
\* that is not a number, and for a number written with thousands separators it
\* gives the number with the separators removed.
C22_NullSafeCoercion ==
    cn_pc = "done" =>
        LET t == Strip(Remove(cn_val, ","))
        IN  IF PlainNumber(t) THEN cn_out = ParseFloat(t) ELSE cn_out = NULL

(***************************************************************************)
(*  The tracker's key of an archive with several payload files             *)
(***************************************************************************)

\* C23: an archive of which one payload file failed to parse is not reported
\* as processed by the tracker after the run, so that the next run reads the
\* archive's files again.
C23_FailedFileUnmarked ==
    run_pc = "idle" =>
        \A i \in DOMAIN inbox :
            (\E j \in DOMAIN inbox[i].files : inbox[i].files[j] = "bad") =>
                ~is_already_processed(DocumentKey(inbox[i]),
                                      load_processed_files(disk, disk_state))

(***************************************************************************)
(*  process_combined_excel  (src/processor/mutual_fund_processor.py)       *)
(*  df is the file: its sheets in order, each the sequence of its rows     *)
(*  (a .csv file has one sheet).                                           *)
(***************************************************************************)

\* the columns of subset=['scheme_code', 'plan_name', 'plan_type'], as read
\* with dtype=str
SubsetKey(row) == <<row.folio, row.ref, row.sch>>

\* DataFrame.drop_duplicates(subset=..., keep='last')
DropDuplicatesKeepLast(rows) ==
    SelectSeq([i \in DOMAIN rows |-> [row |-> rows[i], i |-> i]],
              LAMBDA e : \A j \in DOMAIN rows :
                            j > e.i => SubsetKey(rows[j]) # SubsetKey(e.row))

\* the rows a drop_duplicates keeps, without their places
RowsOf(kept) == [i \in DOMAIN kept |-> kept[i].row]

\* prepare_data: lines 37-41
prepare_data(rows) == RowsOf(DropDuplicatesKeepLast(rows))

\* lines 204-207: the prepared sheets, concatenated in sheet order
RECURSIVE Concat(_)
Concat(sheets) ==
    IF sheets = <<>> THEN <<>> ELSE prepare_data(Head(sheets)) \o Concat(Tail(sheets))

\* combined_df[combined_df.duplicated(subset=..., keep=False)]: line 216
Duplicated(rows) ==
    SelectSeq([i \in DOMAIN rows |-> [row |-> rows[i], i |-> i]],
              LAMBDA e : \E j \in DOMAIN rows :
                            j # e.i /\ SubsetKey(rows[j]) = SubsetKey(e.row))

\* the loop of insert_dataframe, lines 76-121: a row with a None in its cleaned
\* key is left out
ExcelValuesList(rows) ==
    SelectSeq([i \in DOMAIN rows |-> CleanedRow("insert_dataframe", rows[i])],
              LAMBDA r : ~HasNull(RowKey("insert_dataframe", r)))

ExcelRows ==
    { Row(<<"A">>, <<"P">>, <<>>, <<"1">>, TRUE),
      Row(<<"A">>, <<"P">>, <<>>, <<"2">>, TRUE),
      Row(<<"B">>, <<"P">>, <<>>, <<"1">>, TRUE),
      Row(<<>>, <<"P">>, <<>>, <<"3">>, TRUE) }        \* no scheme_code

MaxSheets == 2

MaxSheetRows == 2

ExcelInit ==
    /\ loader = "process_combined_excel"
    /\ df \in SeqsUpTo(SeqsUpTo(ExcelRows, MaxSheetRows), MaxSheets)
    /\ has_constraint = TRUE
    /\ db_table \in {<<>>, <<CleanedRow("insert_dataframe",
                                        Row(<<"A">>, <<"P">>, <<>>, <<"9">>, TRUE))>>}
    /\ table_before = db_table
    /\ load_pc = "call"
    /\ deduped_values_list = <<>>
    /\ duplicates = <<>>
    /\ load_result = NoResult
    /\ constraint_found = TRUE
    /\ load_return = NotReturned
    /\ summary_csv = <<>>
    /\ rows_committed = 0
    /\ insert_values = <<>>
    /\ update_values = <<>>
    /\ RouteIdle
    /\ PwIdle
    /\ RunIdle
    /\ ConnIdle
    /\ AuxIdle

\* the whole call: the sheets are prepared and concatenated, the duplicates
\* report is written, unique_df goes to insert_dataframe, which upserts it in
\* batches (lines 175-189)
process_combined_excel ==
    /\ load_pc = "call"
    /\ loader = "process_combined_excel"
    /\ LET combined_df == Concat(df)
           dup_df      == RowsOf(Duplicated(combined_df))
           unique_df   == RowsOf(DropDuplicatesKeepLast(combined_df))
           values_list == ExcelValuesList(unique_df)
           c == CommitBatches("insert_dataframe",
                              [table |-> db_table, total_inserted |-> 0,
                               committed |-> 0, ok |-> TRUE],
                              Batches(values_list), has_constraint, constraint_found)
       IN  /\ duplicates' = dup_df
           /\ deduped_values_list' = values_list
           /\ db_table' = c.table
           /\ load_result' = [NoResult EXCEPT !.total_inserted = c.total_inserted]
           /\ rows_committed' = c.committed
    /\ load_return' = PyNone
    /\ load_pc' = "done"
    /\ UNCHANGED <<loader, df, has_constraint, table_before, constraint_found,
                   summary_csv, insert_values, update_values>>
    /\ UNCHANGED <<routeVars, pwVars, runVars, connVars, auxVars>>

ExcelNext == process_combined_excel

SpecExcel == ExcelInit /\ [][ExcelNext]_vars

\* the rows of the file in source order: sheet after sheet
RECURSIVE FileRows(_)
FileRows(sheets) ==
    IF sheets = <<>> THEN <<>> ELSE Head(sheets) \o FileRows(Tail(sheets))

\* C24: of the rows of the file that share (scheme_code, plan_name, plan_type),
\* the first in source order is the one passed to insert_dataframe and
\* committed; every later one is in the duplicates report and is not committed.
C24_FirstOccurrenceWins ==
    load_pc = "done" =>
        LET rows == FileRows(df)
        IN  \A i \in DOMAIN rows :
                LET r     == CleanedRow("insert_dataframe", rows[i])
                    first == \A j \in 1..(i - 1) : SubsetKey(rows[j]) # SubsetKey(rows[i])
                    other == {j \in DOMAIN rows : /\ SubsetKey(rows[j]) = SubsetKey(rows[i])
                                                  /\ rows[j] # rows[i]}
                IN  HasNull(RowKey("insert_dataframe", r)) \/
                    IF first
                    THEN /\ \E k \in DOMAIN deduped_values_list : deduped_values_list[k] = r
                         /\ \E k \in DOMAIN db_table : db_table[k] = r
                    ELSE \/ \E j \in 1..(i - 1) : rows[j] = rows[i]
                         \/ /\ \E k \in DOMAIN duplicates : duplicates[k] = rows[i]
                            /\ \A k \in DOMAIN db_table : db_table[k] # r

(***************************************************************************)
(*  The skipped update of process_kfintech_trxn_dataframe                  *)
(*  (src/processor/kafintech_trxn_report.py)                               *)
(***************************************************************************)

\* the stored transaction, and incoming rows of its unqno: the same row, one
\* with another invname, one with another td_amt; and a row of a new unqno
TrxnStored == Row(<<"A">>, <<"7">>, DATE1, <<"9">>, TRUE)

TrxnRows ==
    { TrxnStored,
      [TrxnStored EXCEPT !.sch = <<"T">>],
      [TrxnStored EXCEPT !.value = <<"1">>],
      Row(<<"B">>, <<"7">>, DATE1, <<"9">>, TRUE) }

TrxnInit ==
    /\ loader = "process_kfintech_trxn_dataframe"
    /\ df \in SeqsUpTo(TrxnRows, MaxRows)
    /\ has_constraint \in BOOLEAN
    /\ db_table \in {<<>>, <<CleanedRow(loader, TrxnStored)>>}
    /\ table_before = db_table
    /\ load_pc = "call"
    /\ deduped_values_list = <<>>
    /\ duplicates = <<>>
    /\ load_result = NoResult
    /\ constraint_found = has_constraint
    /\ load_return = NotReturned
    /\ summary_csv = <<>>
    /\ rows_committed = 0
    /\ insert_values = <<>>
    /\ update_values = <<>>
    /\ RouteIdle
    /\ PwIdle
    /\ RunIdle
    /\ ConnIdle
    /\ AuxIdle

TrxnNext == process_kfintech_trxn_dataframe

SpecTrxn == TrxnInit /\ [][TrxnNext]_vars

\* no statement of the call raised: every row of the insert path was inserted
\* and every row of the update path was updated
FailureFree ==
    /\ load_result.total_inserted = Len(insert_values)
    /\ load_result.total_updated = Len(update_values)

\* C25: after a call of process_kfintech_trxn_dataframe in which no statement
\* failed, every stored row whose unqno came in with the document carries the
\* fields of the last incoming row of that unqno, as it would after an
\* unconditional update.
C25_SkipIsOptimization ==
    (load_pc = "done" /\ loader = "process_kfintech_trxn_dataframe" /\ FailureFree) =>
        LET l     == loader
            clean == [i \in DOMAIN df |-> CleanedRow(l, df[i])]
        IN  \A i \in DOMAIN clean :
                (/\ KeyInTable(l, table_before, RowKey(l, clean[i]))
                 /\ \A j \in DOMAIN clean :
                       j > i => RowKey(l, clean[j]) # RowKey(l, clean[i]))
                => \A t \in DOMAIN table_before :
                       RowKey(l, db_table[t]) = RowKey(l, clean[i]) =>
                           \A c \in UpdateColumns(l) : db_table[t][c] = clean[i][c]

(***************************************************************************)
(*  The password of a message and the messages before it                   *)
(***************************************************************************)

\* C26: a message is skipped, or gets its password, as it would were it the
\* first message of the run: the messages handled before it have no part in
\* either.
C26_PasswordOfMessageAlone ==
    \A i \in DOMAIN pw_out :
        LET alone == ResolvePassword(pw_msgs[i], Unbound)
        IN  /\ pw_out[i].skipped = alone.skipped
            /\ ~alone.skipped => pw_out[i].password = alone.password

(***************************************************************************)
(*  Mail attachments and their extract folders                             *)
(*  (process_dbf_download_links, lines 204-244)                            *)
(***************************************************************************)

\* the .dbf / .csv files inside an archive
InnerNames == {"x.dbf", "y.dbf"}

\* a message with one .zip attachment: its subject, the attachment's filename
\* (without ".zip") and the payload files the archive holds
Attachments ==
    [kind : {"attachment"}, subject : HSubjects, name : {<<"a">>, <<"b">>},
     files : (SUBSET InnerNames) \ {{}}]

MaxAttachments == 2

AtInit ==
    /\ at_msgs \in SeqsUpTo(Attachments, MaxAttachments)
    /\ at_idx = 0
    /\ at_pc = "loop"
    /\ at_folders = {}
    /\ at_keys = {}
    /\ at_files = {}
    /\ RouteIdle
    /\ PwIdle
    /\ RunIdle
    /\ LoadIdle
    /\ ConnIdle
    /\ DlIdle
    /\ CnIdle
    /\ BkIdle
    /\ KbIdle
    /\ CcIdle

AtOthers == <<routeVars, pwVars, runVars, loadVars, connVars, dlVars, cnVars, bkVars, kbVars, ccVars>>

\* extract_folder = os.path.join(cams_folder, os.path.splitext(filename)[0])
ExtractFolder(u) == u.name

\* extract_zip: zf.extractall(extract_to) writes the archive's files into the
\* folder, over files of the same name; what else the folder holds stays
ExtractAll(folders, u, i) ==
    {t \in folders : ~(t[1] = ExtractFolder(u) /\ t[2] \in u.files)}
        \cup {<<ExtractFolder(u), f, i>> : f \in u.files}

\* os.listdir(extract_folder)
ListDir(folders, folder) == {t \in folders : t[1] = folder}

\* one message of the loop: lines 204-244. An attachment whose key is marked is
\* skipped; else the archive is extracted and every file the folder lists is
\* read, the key marked and a Document appended
HandleAttachment ==
    /\ at_pc = "loop"
    /\ at_idx < Len(at_msgs)
    /\ LET u == at_msgs[at_idx + 1]
           extracted == ExtractAll(at_folders, u, at_idx + 1)
       IN  IF is_already_processed(DocumentKey(u), at_keys)
           THEN UNCHANGED <<at_folders, at_keys, at_files>>
           ELSE /\ at_folders' = extracted
                /\ at_keys' = mark_as_processed(DocumentKey(u), at_keys, at_keys, "ok").mem
                /\ at_files' = at_files \cup
                      {[subject |-> u.subject, file |-> t[2], from |-> t[3],
                        msg |-> at_idx + 1] : t \in ListDir(extracted, ExtractFolder(u))}
    /\ at_idx' = at_idx + 1
    /\ UNCHANGED <<at_msgs, at_pc>>
    /\ UNCHANGED AtOthers

\* return all_files
AtReturn ==
    /\ at_pc = "loop"
    /\ at_idx = Len(at_msgs)
    /\ at_pc' = "done"
    /\ UNCHANGED <<at_msgs, at_idx, at_folders, at_keys, at_files>>
    /\ UNCHANGED AtOthers

\* a later run of the same day: the same messages are found, the folders and
\* processed_files.json are as the earlier run left them
AtNextRun ==
    /\ at_pc = "done"
    /\ at_idx' = 0
    /\ at_files' = {}
    /\ at_pc' = "loop"
    /\ UNCHANGED <<at_msgs, at_folders, at_keys>>
    /\ UNCHANGED AtOthers

AtNext ==
    \/ HandleAttachment
    \/ AtReturn
    \/ AtNextRun

SpecAttachments == AtInit /\ [][AtNext]_vars

\* C27: every Document emitted for a message's attachment holds a file
\* extracted from that message's archive, never one an earlier message's
\* archive left behind.
C27_OwnArchiveOnly ==
    \A d \in at_files : d.from = d.msg

(***************************************************************************)
(*  process_cam_brokerage_dataframe and file_processing_tracker            *)
(*  (src/processor/process_cam_brokerage.py)                               *)
(***************************************************************************)

MaxFileRows == 4

MaxCalls == 3

BkInit ==
    /\ bk_exists \in BOOLEAN
    /\ bk_unique \in BOOLEAN
    /\ bk_len \in 1..MaxFileRows
    /\ bk_copies = [i \in 1..bk_len |-> 0]
    /\ bk_tracked = FALSE
    /\ bk_calls = 0
    /\ bk_return = -1
    /\ RouteIdle
    /\ PwIdle
    /\ RunIdle
    /\ LoadIdle
    /\ ConnIdle
    /\ DlIdle
    /\ CnIdle
    /\ AtIdle
    /\ KbIdle
    /\ CcIdle

BkOthers == <<routeVars, pwVars, runVars, loadVars, connVars, dlVars, cnVars, atVars, kbVars, ccVars>>

\* lines 111-117: the check is made only for a path that exists
is_file_already_processed(exists, tracked) == exists /\ tracked

\* the batches at which execute_values may raise (0: at none): any batch, for
\* an error of the database; with a unique constraint the first batch that
\* holds a row the table already has raises, if none before it did
FailPoints(batches, copies, uniq) ==
    LET clash == {b \in DOMAIN batches :
                     uniq /\ \E k \in DOMAIN batches[b] : copies[batches[b][k]] > 0}
    IN  IF clash = {} THEN 0..Len(batches)
        ELSE 1..(CHOOSE b \in clash : \A c \in clash : b <= c)

\* the rows of the batches before the one whose execute_values raises
\* (fail_at = 0: none raises): each of these batches was committed on its own
CommittedRows(batches, fail_at) ==
    UNION { {batches[b][k] : k \in DOMAIN batches[b]} :
            b \in {n \in DOMAIN batches : fail_at = 0 \/ n < fail_at} }

\* mark_file_as_processed, lines 69-106: the upsert of the file's COMPLETED row
mark_file_as_processed(tracked) == TRUE

\* one call on the file: lines 108-316. The file is skipped when the tracker
\* has it; else the rows are inserted batch by batch (plain INSERT), and
\* the file is marked after the last batch; an error ends the call with the
\* earlier batches committed and the file unmarked
process_cam_brokerage_dataframe ==
    /\ bk_calls < MaxCalls
    /\ bk_calls' = bk_calls + 1
    /\ IF is_file_already_processed(bk_exists, bk_tracked)
       THEN /\ bk_return' = 0
            /\ UNCHANGED <<bk_copies, bk_tracked>>
       ELSE \E fail_at \in FailPoints(Batches([i \in 1..bk_len |-> i]), bk_copies, bk_unique) :
               LET batches == Batches([i \in 1..bk_len |-> i])
                   done    == CommittedRows(batches, fail_at)
               IN  /\ bk_copies' = [i \in 1..bk_len |->
                                       IF i \in done THEN bk_copies[i] + 1 ELSE bk_copies[i]]
                   /\ bk_tracked' = IF fail_at = 0 /\ bk_exists
                                    THEN mark_file_as_processed(bk_tracked)
                                    ELSE bk_tracked
                   /\ bk_return' = IF fail_at = 0 THEN bk_len ELSE 0
    /\ UNCHANGED <<bk_exists, bk_unique, bk_len>>
    /\ UNCHANGED BkOthers

BkNext == process_cam_brokerage_dataframe

SpecBrokerage == BkInit /\ [][BkNext]_vars

\* C28: whatever calls were made on an existing file, failed ones included,
\* the table holds at most one copy of each of its rows, and the tracker
\* reports the file as processed exactly when its rows are in the table.
C28_NoRowTwice ==
    bk_exists =>
        /\ \A i \in DOMAIN bk_copies : bk_copies[i] <= 1
        /\ is_file_already_processed(bk_exists, bk_tracked)
              <=> (bk_calls > 0 /\ \A i \in DOMAIN bk_copies : bk_copies[i] >= 1)

(***************************************************************************)
(*  process_kfintech_brokerage_dataframe: the bulk upsert of a batch and   *)
(*  fallback_individual_inserts (kfintech_brokerage.py)                    *)
(*                                                                         *)
(*  The connection is a psycopg2 connection in its transaction mode: the   *)
(*  loader ends its transactions with conn.commit() and conn.rollback().   *)
(*  After a statement of a transaction has raised, every later statement   *)
(*  of that transaction raises too, and its commit commits nothing.        *)
(***************************************************************************)

MaxBrokerageRows == 5

RowKinds == {"ok", "refused"}

KbInit ==
    /\ kb_rows \in UNION {[1..n -> RowKinds] : n \in 1..MaxBrokerageRows}
    /\ kb_start = 0
    /\ kb_pc = "loop"
    /\ kb_table = {}
    /\ kb_successful = 0
    /\ kb_failed = 0
    /\ kb_fallbacks = 0
    /\ kb_return = -1
    /\ RouteIdle
    /\ PwIdle
    /\ RunIdle
    /\ LoadIdle
    /\ ConnIdle
    /\ DlIdle
    /\ CnIdle
    /\ AtIdle
    /\ BkIdle
    /\ CcIdle

KbOthers == <<routeVars, pwVars, runVars, loadVars, connVars, dlVars, cnVars, atVars, bkVars, ccVars>>

\* the statements of the fallback's loop, lines 227-233, over the rows
\* `batch` (positions in the file) from position i of the batch on: `aborted`
\* is the state of the transaction, `count` is successful_count, `pending`
\* the rows inserted in the transaction
RECURSIVE IndividualInserts(_, _, _, _, _, _)
IndividualInserts(rows, batch, i, aborted, count, pending) ==
    IF i > Len(batch) THEN [aborted |-> aborted, count |-> count, pending |-> pending]
    ELSE IF aborted \/ rows[batch[i]] = "refused"
         THEN IndividualInserts(rows, batch, i + 1, TRUE, count, pending)      \* except: continue
         ELSE IndividualInserts(rows, batch, i + 1, FALSE, count + 1,
                                pending \union {batch[i]})

\* fallback_individual_inserts, lines 219-236: the loop, then conn.commit()
\* and return successful_count
fallback_individual_inserts(rows, batch) ==
    LET r == IndividualInserts(rows, batch, 1, FALSE, 0, {})
    IN  [committed |-> IF r.aborted THEN {} ELSE r.pending,
         count     |-> r.count]

\* process_batch, lines 161-217: the bulk upsert of the batch, committed as
\* one; when it raises (a row the database refuses, or `error`: any other
\* error of the database), rollback and the fallback
process_batch(rows, batch, error) ==
    IF ~error /\ \A i \in DOMAIN batch : rows[batch[i]] = "ok"
    THEN [committed |-> {batch[i] : i \in DOMAIN batch},
          count     |-> Len(batch),
          fallback  |-> FALSE]
    ELSE LET f == fallback_individual_inserts(rows, batch)
         IN  [committed |-> f.committed, count |-> f.count, fallback |-> TRUE]

\* one turn of the loop of process_kfintech_brokerage_dataframe, lines 85-97
KbBatch ==
    /\ kb_pc = "loop"
    /\ kb_start < Len(kb_rows)
    /\ \E error \in BOOLEAN :
          LET batch_end == IF kb_start + BATCH_SIZE < Len(kb_rows)
                           THEN kb_start + BATCH_SIZE ELSE Len(kb_rows)
              batch == [i \in 1..(batch_end - kb_start) |-> kb_start + i]
              r     == process_batch(kb_rows, batch, error)
          IN  /\ kb_table' = kb_table \union r.committed
              /\ kb_successful' = kb_successful + r.count
              /\ kb_failed' = kb_failed + (Len(batch) - r.count)
              /\ kb_fallbacks' = kb_fallbacks + (IF r.fallback THEN 1 ELSE 0)
              /\ kb_start' = batch_end
    /\ UNCHANGED <<kb_rows, kb_pc, kb_return>>
    /\ UNCHANGED KbOthers

\* after the loop, lines 99-108: the summary row is written and
\* successful_rows is returned
KbReturn ==
    /\ kb_pc = "loop"
    /\ kb_start >= Len(kb_rows)
    /\ kb_pc' = "done"
    /\ kb_return' = kb_successful
    /\ UNCHANGED <<kb_rows, kb_start, kb_table, kb_successful, kb_failed, kb_fallbacks>>
    /\ UNCHANGED KbOthers

KbNext == KbBatch \/ KbReturn

SpecKfintechBrokerage == KbInit /\ [][KbNext]_vars

\* C29: whatever rows of a batch the database refuses, and at whatever
\* position, the rows counted as successful are the rows committed:
\* successful_rows is the number of the file's rows in the table, and
\* successful_rows + failed_rows the number of rows of the batches done.
C29_FallbackCountIsCommitted ==
    /\ kb_successful = Cardinality(kb_table)
    /\ kb_successful + kb_failed = kb_start

(***************************************************************************)
(*  Two runs at the same time: run_job (run_api.py) calls main() in the    *)
(*  thread of its request, and the scheduled job calls it in a process of  *)
(*  its own; each call of process_dbf_download_links loads its own         *)
(*  processed_files set, and nothing serialises the calls                  *)
(***************************************************************************)

Runs == {1, 2}

DocumentKeys == {"k1", "k2"}

MaxInboxKeys == 2

CcInit ==
    /\ cc_inbox \in {s \in UNION {[1..n -> DocumentKeys] : n \in 1..MaxInboxKeys} :
                        \A i, j \in DOMAIN s : s[i] = s[j] => i = j}
    /\ cc_disk \in SUBSET DocumentKeys
    /\ cc_pc = [r \in Runs |-> "start"]
    /\ cc_mem = [r \in Runs |-> {}]
    /\ cc_idx = [r \in Runs |-> 0]
    /\ cc_emitted = [r \in Runs |-> {}]
    /\ cc_marked = [r \in Runs |-> {}]
    /\ RouteIdle
    /\ PwIdle
    /\ RunIdle
    /\ LoadIdle
    /\ ConnIdle
    /\ DlIdle
    /\ CnIdle
    /\ AtIdle
    /\ BkIdle
    /\ KbIdle

CcOthers == <<routeVars, pwVars, runVars, loadVars, connVars, dlVars, cnVars, atVars, bkVars, kbVars>>

\* line 91: processed_files = load_processed_files()
CcLoad(r) ==
    /\ cc_pc[r] = "start"
    /\ cc_mem' = [cc_mem EXCEPT ![r] = load_processed_files(cc_disk, "ok")]
    /\ cc_pc' = [cc_pc EXCEPT ![r] = "check"]
    /\ UNCHANGED <<cc_inbox, cc_disk, cc_idx, cc_emitted, cc_marked>>
    /\ UNCHANGED CcOthers

\* lines 211-214, 256-259: the key is looked up in the run's own set; a key
\* found there is skipped
CcCheck(r) ==
    /\ cc_pc[r] = "check"
    /\ cc_idx[r] < Len(cc_inbox)
    /\ IF is_already_processed(cc_inbox[cc_idx[r] + 1], cc_mem[r])
       THEN /\ cc_idx' = [cc_idx EXCEPT ![r] = @ + 1]
            /\ UNCHANGED cc_pc
       ELSE /\ cc_pc' = [cc_pc EXCEPT ![r] = "read"]
            /\ UNCHANGED cc_idx
    /\ UNCHANGED <<cc_inbox, cc_disk, cc_mem, cc_emitted, cc_marked>>
    /\ UNCHANGED CcOthers

\* lines 216-244, 261-286: the archive is fetched, extracted and read; when
\* a payload file was read, the key is added to the run's set, the set is
\* written to processed_files.json and the Document is appended
CcMark(r) ==
    /\ cc_pc[r] = "read"
    /\ \E readable \in BOOLEAN :
          LET file_key == cc_inbox[cc_idx[r] + 1]
              m == mark_as_processed(file_key, cc_mem[r], cc_disk, "ok")
          IN  IF readable
              THEN /\ cc_mem' = [cc_mem EXCEPT ![r] = m.mem]
                   /\ cc_disk' = m.disk
                   /\ cc_emitted' = [cc_emitted EXCEPT ![r] = @ \cup {file_key}]
                   /\ cc_marked' = [cc_marked EXCEPT ![r] = @ \cup {file_key}]
              ELSE UNCHANGED <<cc_mem, cc_disk, cc_emitted, cc_marked>>
    /\ cc_idx' = [cc_idx EXCEPT ![r] = @ + 1]
    /\ cc_pc' = [cc_pc EXCEPT ![r] = "check"]
    /\ UNCHANGED cc_inbox
    /\ UNCHANGED CcOthers

\* lines 292-298: the run returns all_files
CcReturn(r) ==
    /\ cc_pc[r] = "check"
    /\ cc_idx[r] = Len(cc_inbox)
    /\ cc_pc' = [cc_pc EXCEPT ![r] = "done"]
    /\ UNCHANGED <<cc_inbox, cc_disk, cc_mem, cc_idx, cc_emitted, cc_marked>>
    /\ UNCHANGED CcOthers

CcNext == \E r \in Runs : CcLoad(r) \/ CcCheck(r) \/ CcMark(r) \/ CcReturn(r)

SpecConcurrentRuns == CcInit /\ [][CcNext]_vars

\* C30: under every interleaving of the steps of two runs, no key has a
\* Document emitted by both, and once both runs are over processed_files.json
\* holds every key either of them marked.
C30_ConcurrentRunsSafe ==
    /\ \A r, s \in Runs : r # s => cc_emitted[r] \cap cc_emitted[s] = {}
    /\ (\A r \in Runs : cc_pc[r] = "done")
          => \A r \in Runs : cc_marked[r] \subseteq cc_disk

=============================================================================
